---------------------------- MODULE Spec2Model ----------------------------
(***************************************************************************)
(* A model of the WhatsApp auto-reply bot: the per-handler rate limiter    *)
(* (whatsapp-handler.js), the conversation context and response            *)
(* post-processing of the generator client (gemini-ai.js), the reply       *)
(* pipeline of one inbound message, the session table and HTTP send        *)
(* endpoint (server) and the message store (database).                     *)
(*                                                                         *)
(* Time is the value of Date.now() in milliseconds.  A text is a sequence  *)
(* of UTF-16 code units, each written as a one-character string (or a      *)
(* "uXXXX" token for a unit outside ASCII), so that Len is JavaScript's    *)
(* String.length.                                                          *)
(***************************************************************************)
EXTENDS Integers, Sequences, FiniteSets, TLC

VARIABLES
  now,                  \* Date.now(), ms
  ticks,                \* number of clock advances so far (bounds the run)
  messageQueue,         \* [session -> Map phone -> timestamps]  (WhatsAppHandler.messageQueue)
  admitLog,             \* history: the isRateLimited calls made, in order
  conversationContext,  \* [session -> Map userName -> exchanges]  (GeminiAI.conversationContext)
  sweepTimers,          \* [session -> due times of the pending setTimeout sweeps]
  recorded,             \* history: [session -> Map userName -> every exchange recorded, in order]
  lastSweep,            \* history: [session -> time of the latest sweep, or -1]
  activeSessions,       \* Map sessionId -> the record stored by 'start-session'
  handlers,             \* the session ids whose WhatsAppHandler has been constructed
  client,               \* [session -> "null" | "live" | "failed"]  (WhatsAppHandler.client)
  isReady,              \* [session -> BOOLEAN]          (WhatsAppHandler.isReady)
  sockets,              \* [socket -> how far its 'disconnect' handling has come]
  ended,                \* history: the sessions that were disconnected, stopped or failed
  inbound,              \* the messages the transport has delivered, in order
  tasks,                \* the handleIncomingMessage invocations, in order of start
  sent,                 \* history: the message.reply calls made, in order
  db,                   \* table whatsapp_messages: Map id -> row
  stats,                \* table bot_statistics: [session -> counters]
  faults,               \* number of collaborator calls that have failed so far
  apiLog                \* history: the sendMessage calls made and their results

rateVars == <<messageQueue, admitLog>>
ctxVars  == <<conversationContext, sweepTimers, recorded, lastSweep>>
sessVars == <<activeSessions, handlers, client, isReady, sockets, ended>>
pipeVars == <<inbound, tasks, sent, db, stats, faults>>
vars     == <<now, ticks, rateVars, ctxVars, sessVars, pipeVars, apiLog>>

----------------------------------------------------------------------------
(* Bounds of the model *)

MaxTicks   == 3     \* clock advances in one run of SpecRate
MaxCtxTicks == 2    \* clock advances in one run of SpecCtx
MaxCalls   == 5     \* isRateLimited calls in one run of SpecRate
MaxRecords == 4     \* updateContext calls in one run of SpecCtx

\* the amounts by which the clock advances
TickSteps    == {1000, 60000}
CtxTickSteps == {60000, 3600000}
PipeTickSteps == {60000}

MaxMessages == 1    \* inbound messages in one run of Spec and SpecReply
MaxBurst    == 3    \* inbound messages in one run of SpecBurst
MaxInFlight == 1    \* a message is taken in while fewer invocations are under way
MaxPipeTicks == 1   \* idle minutes in one run of Spec and SpecBurst
LongLen     == 301  \* length of the over-long text the generator can return
MaxFaults   == 1    \* collaborator calls that fail in one run

MaxApiCalls == 3    \* requests to /api/send-message in one run of SpecSession
MaxOverlap == 2     \* messages taken in by a session in one run of SpecOverlap
MaxSeries  == 2     \* messages taken in one after the other in one run of SpecSeries

SessionIds == {"s1"}
UnknownSession == "s0"
Sockets    == {"k1"}

\* the sessions and the control connections of the specifications that are
\* about several of them
AllSessionIds == {"s1", "s2"}
AllSockets    == {"k1", "k2"}
Phones     == {"911", "922"}
UserNames  == {"Sam", "Ria"}

\* the contacts that write to the bot: contact.number and the display name
\* (contact.name || contact.pushname || contact.number)
Contacts == {[phone |-> "911", name |-> "Sam"]}

\* message bodies: "hello" (an English pattern only) and "kya hai" (Hindi words)
BodyHello  == <<"h", "e", "l", "l", "o">>
BodyKyaHai == <<"k", "y", "a", " ", "h", "a", "i">>
Bodies     == {BodyHello, BodyKyaHai}

\* what the transport can deliver: a chat message of a contact, a message in
\* a group, an e2e notification, and a message the account itself sent
InboundKinds ==
  {[phone |-> c.phone, name |-> c.name, body |-> b, type |-> "chat",
    isGroup |-> FALSE, fromMe |-> FALSE] : c \in Contacts, b \in Bodies}
  \cup {[phone |-> c.phone, name |-> c.name, body |-> BodyHello, type |-> "chat",
         isGroup |-> TRUE, fromMe |-> FALSE] : c \in Contacts}
  \cup {[phone |-> c.phone, name |-> c.name, body |-> <<>>,
         type |-> "e2e_notification", isGroup |-> FALSE, fromMe |-> FALSE] :
           c \in Contacts}
  \cup {[phone |-> c.phone, name |-> c.name, body |-> BodyHello, type |-> "chat",
         isGroup |-> FALSE, fromMe |-> TRUE] : c \in Contacts}

\* the chat messages of the contacts, and those of a burst of one sender
ChatKinds  == {kind \in InboundKinds :
                 kind.type = "chat" /\ ~kind.isGroup /\ ~kind.fromMe}
BurstKinds == {kind \in ChatKinds : kind.body = BodyHello}

\* the values Math.random() is given in the model: the first and the last
\* index of the list drawn from
Draws(list) == {1, Len(list)}

\* the typing delays drawn: Math.floor(Math.random() * 2000) + 1000
ShortestDelay == 1000
LongestDelay  == 2999
TypingDelays  == {ShortestDelay, LongestDelay}

\* the texts of the exchanges recorded in SpecCtx: the n-th recording of a
\* run carries the reply text "reply" followed by the digit n
CtxUserTexts == {<<"h", "i">>}
Digit(n)     == <<"0", "1", "2", "3", "4", "5", "6", "7", "8", "9">>[(n % 10) + 1]
CtxAiText(n) == <<"r", "e", "p", "l", "y", Digit(n)>>

----------------------------------------------------------------------------
(* Program constants *)

RateWindowMs  == 60000     \* now - timestamp < 60000
RateMax       == 2         \* filtered.length >= 2
ContextMax    == 3         \* userContext.length > 3
ContextTtlMs  == 3600000   \* 60 * 60 * 1000
SweepDelayMs  == 60000     \* setTimeout(..., 60000)
MaxReplyLen   == 300       \* cleanResponse.length > 300
CutLen        == 297       \* cleanResponse.substring(0, 297)
MinReplyLen   == 5         \* cleanResponse.length < 5
HistoryLimit  == 5         \* database.getChatHistory(messageData.phone, 5)

----------------------------------------------------------------------------
(* Maps (JavaScript Map): a function whose domain is the set of keys *)

EmptyMap == [k \in {} |-> <<>>]

MapSet(m, k, v) == [x \in DOMAIN m \cup {k} |-> IF x = k THEN v ELSE m[x]]

MapDelete(m, k) == [x \in DOMAIN m \ {k} |-> m[x]]

MapGet(m, k, default) == IF k \in DOMAIN m THEN m[k] ELSE default

----------------------------------------------------------------------------
(* WhatsAppHandler.isRateLimited *)

\* userQueue.filter(timestamp => now - timestamp < 60000)
LiveTimestamps(userQueue, t) ==
  SelectSeq(userQueue, LAMBDA timestamp : t - timestamp < RateWindowMs)

\* Variant: the attempt is recorded before the limit is tested, so a rejected
\* call also rewrites the window.
isRateLimited_RecordsRejected(queue, phone, t) ==
  IF phone \notin DOMAIN queue
  THEN [limited |-> FALSE, queue |-> MapSet(queue, phone, <<t>>)]
  ELSE LET filtered == LiveTimestamps(queue[phone], t)
       IN  [limited |-> Len(filtered) >= RateMax,
            queue   |-> MapSet(queue, phone, Append(filtered, t))]

\* Variant: three messages per minute are let through.
isRateLimited_AllowsThree(queue, phone, t) ==
  IF phone \notin DOMAIN queue
  THEN [limited |-> FALSE, queue |-> MapSet(queue, phone, <<t>>)]
  ELSE LET filtered == LiveTimestamps(queue[phone], t)
       IN  IF Len(filtered) >= RateMax + 1
           THEN [limited |-> TRUE, queue |-> queue]
           ELSE [limited |-> FALSE,
                 queue   |-> MapSet(queue, phone, Append(filtered, t))]

\* Variant: an admitted call pushes onto the stored array, not the filtered one.
isRateLimited_KeepsStale(queue, phone, t) ==
  IF phone \notin DOMAIN queue
  THEN [limited |-> FALSE, queue |-> MapSet(queue, phone, <<t>>)]
  ELSE LET filtered == LiveTimestamps(queue[phone], t)
       IN  IF Len(filtered) >= RateMax
           THEN [limited |-> TRUE, queue |-> queue]
           ELSE [limited |-> FALSE,
                 queue   |-> MapSet(queue, phone, Append(queue[phone], t))]

\* The call on the handler whose messageQueue is `queue`, at Date.now() = t:
\* the value returned and the messageQueue afterwards.
isRateLimited(queue, phone, t) ==
  IF phone \notin DOMAIN queue
  THEN [limited |-> FALSE, queue |-> MapSet(queue, phone, <<t>>)]
  ELSE LET filtered == LiveTimestamps(queue[phone], t)
       IN  IF Len(filtered) >= RateMax
           THEN [limited |-> TRUE, queue |-> queue]
           ELSE [limited |-> FALSE,
                 queue   |-> MapSet(queue, phone, Append(filtered, t))]

----------------------------------------------------------------------------
(* GeminiAI.updateContext and the timer callback it schedules *)

\* Variant: the entry is cut only once it holds more than four exchanges.
updateContext_KeepsFour(ctx, timers, userName, userMessage, aiResponse, t) ==
  LET userContext == MapGet(ctx, userName, <<>>)
      pushed == Append(userContext,
                  [user |-> userMessage, ai |-> aiResponse, timestamp |-> t])
      kept == IF Len(pushed) > ContextMax + 1 THEN Tail(pushed) ELSE pushed
  IN  [ctx    |-> MapSet(ctx, userName, kept),
       timers |-> Append(timers, t + SweepDelayMs)]

\* The call on the GeminiAI whose conversationContext is `ctx` and whose
\* pending sweep timers are `timers`, at Date.now() = t: both afterwards.
updateContext(ctx, timers, userName, userMessage, aiResponse, t) ==
  LET userContext == MapGet(ctx, userName, <<>>)
      pushed == Append(userContext,
                  [user |-> userMessage, ai |-> aiResponse, timestamp |-> t])
      kept == IF Len(pushed) > ContextMax THEN Tail(pushed) ELSE pushed
  IN  [ctx    |-> MapSet(ctx, userName, kept),
       timers |-> Append(timers, t + SweepDelayMs)]

\* context.filter(exchange => new Date(exchange.timestamp) > oneHourAgo)
FilteredContext(context, t) ==
  SelectSeq(context, LAMBDA exchange : exchange.timestamp > t - ContextTtlMs)

\* Variant: the age limit is one minute instead of one hour.
SweepCallback_OneMinute(ctx, t) ==
  LET kept == {user \in DOMAIN ctx :
                 FilteredContext(ctx[user], t + ContextTtlMs - 60000) # <<>>}
  IN  [user \in kept |-> FilteredContext(ctx[user], t + ContextTtlMs - 60000)]

\* Variant: an entry that holds an expired exchange is deleted as a whole.
SweepCallback_DropsEntry(ctx, t) ==
  LET kept == {user \in DOMAIN ctx : FilteredContext(ctx[user], t) = ctx[user]}
  IN  [user \in kept |-> ctx[user]]

\* The setTimeout callback of updateContext run at Date.now() = t: the
\* conversationContext afterwards.
SweepCallback(ctx, t) ==
  LET kept == {user \in DOMAIN ctx : FilteredContext(ctx[user], t) # <<>>}
  IN  [user \in kept |-> FilteredContext(ctx[user], t)]

RemoveAt(seq, i) == SubSeq(seq, 1, i - 1) \o SubSeq(seq, i + 1, Len(seq))

----------------------------------------------------------------------------
(* Texts: JavaScript strings as sequences of UTF-16 code units *)

UpperCase == <<"A", "B", "C", "D", "E", "F", "G", "H", "I", "J", "K", "L", "M",
               "N", "O", "P", "Q", "R", "S", "T", "U", "V", "W", "X", "Y", "Z">>
LowerCase == <<"a", "b", "c", "d", "e", "f", "g", "h", "i", "j", "k", "l", "m",
               "n", "o", "p", "q", "r", "s", "t", "u", "v", "w", "x", "y", "z">>

\* the case folding of a regular expression with the i flag
ToLower(c) ==
  IF \E i \in 1..26 : UpperCase[i] = c
  THEN LowerCase[CHOOSE i \in 1..26 : UpperCase[i] = c]
  ELSE c

\* \w of a regular expression
WordChars ==
  {UpperCase[i] : i \in 1..26} \cup {LowerCase[i] : i \in 1..26}
    \cup {"0", "1", "2", "3", "4", "5", "6", "7", "8", "9", "_"}

\* the code units of ऀ-ॿ (Devanagari) that texts of the model use
DevanagariUnits == {"u0915", "u092F", "u093E"}

\* what String.prototype.trim removes, among the code units of the model
WhiteSpace == {" ", "\n"}

\* the text of n code units c
Repeat(c, n) == [i \in 1..n |-> c]

\* the maximal runs of word characters of a text, case folded: \b(w1|w2)\b
\* with the i flag matches a text exactly when one of them is w1 or w2
Words(text) ==
  LET n == Len(text)
      IsWord(i) == text[i] \in WordChars
  IN  { [k \in 1..(j - i + 1) |-> ToLower(text[i + k - 1])] :
          <<i, j>> \in { <<a, b>> \in (1..n) \X (1..n) :
                          /\ a <= b
                          /\ \A k \in a..b : IsWord(k)
                          /\ (a = 1 \/ ~IsWord(a - 1))
                          /\ (b = n \/ ~IsWord(b + 1)) } }

\* GeminiAI.detectLanguage: the word lists of hindiPatterns (patterns 2 to 5)
hindiWordPatterns == <<
  {<<"h", "a", "i">>, <<"h", "a", "i", "n">>, <<"k", "y", "a">>,
   <<"k", "a", "i", "s", "e">>, <<"k", "a", "b">>,
   <<"k", "a", "h", "a", "n">>, <<"k", "y", "u", "n">>, <<"a", "u", "r">>,
   <<"y", "a">>, <<"k", "e">>, <<"k", "i">>, <<"k", "a">>, <<"s", "e">>,
   <<"m", "e">>, <<"t", "u", "m">>, <<"a", "a", "p">>,
   <<"m", "a", "i", "n">>, <<"m", "e", "i", "n">>, <<"h", "u", "m">>,
   <<"w", "o", "h">>, <<"y", "e", "h">>, <<"i", "s", "k", "a">>,
   <<"u", "s", "k", "a">>},
  {<<"b", "h", "a", "i">>, <<"y", "a", "a", "r">>, <<"d", "o", "s", "t">>,
   <<"b", "o", "s", "s">>, <<"s", "i", "r">>, <<"m", "a", "d", "a", "m">>,
   <<"j", "i">>, <<"s", "a", "h", "a", "b">>, <<"b", "r", "o">>,
   <<"d", "i", "d", "i">>, <<"b", "h", "a", "b", "i">>,
   <<"u", "n", "c", "l", "e">>, <<"a", "u", "n", "t", "y">>},
  {<<"a", "c", "h", "h", "a">>, <<"t", "h", "e", "e", "k">>,
   <<"s", "a", "h", "i">>, <<"g", "a", "l", "a", "t">>,
   <<"g", "o", "o", "d">>, <<"b", "a", "d">>, <<"n", "i", "c", "e">>,
   <<"g", "r", "e", "a", "t">>, <<"a", "w", "e", "s", "o", "m", "e">>,
   <<"c", "o", "o", "l">>, <<"o", "k">>, <<"o", "k", "a", "y">>},
  {<<"k", "a", "r", "o">>, <<"k", "a", "r", "n", "a">>,
   <<"k", "a", "r", "n", "e">>, <<"k", "a", "r">>,
   <<"d", "e", "k", "h", "o">>, <<"d", "e", "k", "h">>,
   <<"s", "u", "n", "o">>, <<"s", "u", "n">>, <<"b", "o", "l", "o">>,
   <<"b", "o", "l">>, <<"j", "a", "o">>, <<"j", "a">>, <<"a", "a", "o">>,
   <<"a", "a">>}
>>

\* GeminiAI.detectLanguage: the word lists of englishPatterns
englishPatterns == <<
  {<<"t", "h", "e">>, <<"a", "n", "d">>, <<"o", "r">>, <<"b", "u", "t">>,
   <<"i", "n">>, <<"o", "n">>, <<"a", "t">>, <<"t", "o">>, <<"f", "o", "r">>,
   <<"o", "f">>, <<"w", "i", "t", "h">>, <<"b", "y">>},
  {<<"h", "e", "l", "l", "o">>, <<"h", "i">>, <<"h", "e", "y">>,
   <<"t", "h", "a", "n", "k", "s">>, <<"t", "h", "a", "n", "k">>,
   <<"p", "l", "e", "a", "s", "e">>, <<"s", "o", "r", "r", "y">>,
   <<"e", "x", "c", "u", "s", "e">>, <<"w", "e", "l", "c", "o", "m", "e">>}
>>

Languages == {"hinglish", "english"}

\* GeminiAI.detectLanguage
detectLanguage(text) ==
  LET found == Words(text)
      hindiScore ==
        (IF \E i \in 1..Len(text) : text[i] \in DevanagariUnits THEN 1 ELSE 0)
        + Cardinality({p \in 1..Len(hindiWordPatterns) :
                         hindiWordPatterns[p] \cap found # {}})
      englishScore ==
        Cardinality({p \in 1..Len(englishPatterns) :
                       englishPatterns[p] \cap found # {}})
  IN  IF hindiScore > 0 \/ (hindiScore = 0 /\ englishScore = 0)
      THEN "hinglish"
      ELSE "english"

\* GeminiAI.getFallbackResponse: hinglishFallbacks
hinglishFallbacks == <<
  <<"H", "a", "a", "n", " ", "b", "h", "a", "i", ",", " ", "b", "o", "l",
    "o", " ", "k", "y", "a", " ", "c", "h", "a", "h", "i", "y", "e", "?",
    " ", "uD83D", "uDE0A">>,
  <<"A", "c", "h", "a", ",", " ", "s", "a", "m", "a", "j", "h", " ", "g",
    "a", "y", "a", ".", " ", "A", "u", "r", " ", "b", "a", "t", "a", "o",
    "?", " ", "uD83D", "uDC4D">>,
  <<"T", "h", "e", "e", "k", " ", "h", "a", "i", " ", "y", "a", "a", "r",
    "!", " ", "K", "y", "a", " ", "a", "u", "r", " ", "h", "e", "l", "p",
    " ", "c", "h", "a", "h", "i", "y", "e", "?", " ", "uD83E", "uDD14">>,
  <<"S", "a", "h", "i", " ", "h", "a", "i", "!", " ", "K", "o", "i", " ",
    "a", "u", "r", " ", "s", "a", "w", "a", "l", "?", " ", "uD83D", "uDE04">>,
  <<"H", "m", "m", " ", "i", "n", "t", "e", "r", "e", "s", "t", "i", "n",
    "g", "!", " ", "B", "o", "l", "o", " ", "a", "u", "r", " ", "k", "y",
    "a", " ", "p", "u", "c", "h", "n", "a", " ", "h", "a", "i", "?", " ",
    "uD83E", "uDD17">>,
  <<"G", "o", "t", " ", "i", "t", " ", "b", "r", "o", "!", " ", "A", "u",
    "r", " ", "k", "u", "c", "h", " ", "h", "e", "l", "p", "?", " ", "uD83D",
    "uDC4C">>,
  <<"N", "i", "c", "e", " ", "y", "a", "a", "r", "!", " ", "K", "y", "a",
    " ", "a", "u", "r", " ", "d", "i", "s", "c", "u", "s", "s", " ", "k",
    "a", "r", "n", "a", " ", "h", "a", "i", "?", " ", "uD83D", "uDCAD">>,
  <<"A", "c", "h", "h", "a", " ", "a", "c", "h", "h", "a", ",", " ", "s",
    "a", "m", "j", "h", "a", ".", " ", "A", "u", "r", " ", "b", "a", "t",
    "a", "o", "?", " ", "uD83D", "uDE42">>
>>

\* GeminiAI.getFallbackResponse: englishFallbacks
englishFallbacks == <<
  <<"S", "u", "r", "e", "!", " ", "W", "h", "a", "t", " ", "e", "l", "s",
    "e", " ", "c", "a", "n", " ", "I", " ", "h", "e", "l", "p", " ", "y",
    "o", "u", " ", "w", "i", "t", "h", "?", " ", "uD83D", "uDE0A">>,
  <<"G", "o", "t", " ", "i", "t", "!", " ", "A", "n", "y", "t", "h", "i",
    "n", "g", " ", "e", "l", "s", "e", " ", "o", "n", " ", "y", "o", "u",
    "r", " ", "m", "i", "n", "d", "?", " ", "uD83D", "uDC4D">>,
  <<"U", "n", "d", "e", "r", "s", "t", "o", "o", "d", "!", " ", "W", "h",
    "a", "t", " ", "w", "o", "u", "l", "d", " ", "y", "o", "u", " ", "l",
    "i", "k", "e", " ", "t", "o", " ", "k", "n", "o", "w", " ", "n", "e",
    "x", "t", "?", " ", "uD83E", "uDD14">>,
  <<"A", "l", "r", "i", "g", "h", "t", "!", " ", "H", "o", "w", " ", "c",
    "a", "n", " ", "I", " ", "a", "s", "s", "i", "s", "t", " ", "y", "o",
    "u", " ", "f", "u", "r", "t", "h", "e", "r", "?", " ", "uD83D", "uDE04">>,
  <<"I", " ", "s", "e", "e", "!", " ", "A", "n", "y", " ", "o", "t", "h",
    "e", "r", " ", "q", "u", "e", "s", "t", "i", "o", "n", "s", "?", " ",
    "uD83E", "uDD17">>,
  <<"P", "e", "r", "f", "e", "c", "t", "!", " ", "W", "h", "a", "t", " ",
    "e", "l", "s", "e", " ", "c", "a", "n", " ", "I", " ", "d", "o", " ",
    "f", "o", "r", " ", "y", "o", "u", "?", " ", "uD83D", "uDC4C">>,
  <<"C", "o", "o", "l", "!", " ", "A", "n", "y", "t", "h", "i", "n", "g",
    " ", "e", "l", "s", "e", " ", "y", "o", "u", "'", "d", " ", "l", "i",
    "k", "e", " ", "t", "o", " ", "d", "i", "s", "c", "u", "s", "s", "?",
    " ", "uD83D", "uDCAD">>,
  <<"G", "r", "e", "a", "t", "!", " ", "W", "h", "a", "t", "'", "s", " ",
    "n", "e", "x", "t", "?", " ", "uD83D", "uDE42">>
>>

\* WhatsAppHandler.getFallbackMessage: fallbacks
fallbacks == <<
  <<"S", "o", "r", "r", "y", " ", "y", "a", "a", "r", ",", " ", "t", "h",
    "o", "d", "a", " ", "i", "s", "s", "u", "e", " ", "h", "o", " ", "g",
    "a", "y", "a", ".", " ", "T", "u", "m", " ", "b", "o", "l", "o", " ",
    "k", "y", "a", " ", "c", "h", "a", "h", "i", "y", "e", "?", " ", "uD83D",
    "uDE05">>,
  <<"A", "r", "r", "e", " ", "b", "h", "a", "i", ",", " ", "e", "k", " ",
    "m", "i", "n", "u", "t", "e", ".", ".", ".", " ", "t", "h", "o", "d",
    "a", " ", "c", "o", "n", "f", "u", "s", "i", "o", "n", " ", "h", "a",
    "i", ".", " ", "D", "u", "b", "a", "r", "a", " ", "t", "r", "y", " ",
    "k", "a", "r", "o", "!", " ", "uD83E", "uDD14">>,
  <<"O", "o", "p", "s", "!", " ", "L", "a", "g", "t", "a", " ", "h", "a",
    "i", " ", "n", "e", "t", "w", "o", "r", "k", " ", "i", "s", "s", "u",
    "e", " ", "h", "a", "i", ".", " ", "K", "y", "a", " ", "k", "e", "h",
    " ", "r", "a", "h", "e", " ", "t", "h", "e", "?", " ", "uD83E", "uDD16">>,
  <<"S", "o", "r", "r", "y", " ", "b", "o", "s", "s", ",", " ", "s", "a",
    "m", "a", "j", "h", " ", "n", "a", "h", "i", " ", "a", "a", "y", "a",
    ".", " ", "A", "u", "r", " ", "b", "a", "t", "a", "o", " ", "k", "y",
    "a", " ", "h", "e", "l", "p", " ", "c", "h", "a", "h", "i", "y", "e",
    "?", " ", "uD83E", "uDD37", "u200D", "u2642", "uFE0F">>
>>

\* GeminiAI.postProcessResponse: aiPhrases
aiPhrases == <<
  <<"A", "s", " ", "a", "n", " ", "A", "I">>,
  <<"I", " ", "a", "m", " ", "a", "n", " ", "A", "I">>,
  <<"I", "'", "m", " ", "a", "n", " ", "A", "I", " ", "a", "s", "s", "i",
    "s", "t", "a", "n", "t">>,
  <<"I", " ", "c", "a", "n", "n", "o", "t">>,
  <<"I", "'", "m", " ", "n", "o", "t", " ", "a", "b", "l", "e", " ", "t",
    "o">>,
  <<"I", " ", "d", "o", "n", "'", "t", " ", "h", "a", "v", "e", " ", "t",
    "h", "e", " ", "a", "b", "i", "l", "i", "t", "y">>,
  <<"I", " ", "a", "p", "o", "l", "o", "g", "i", "z", "e">>,
  <<"I", "'", "m", " ", "s", "o", "r", "r", "y", " ", "f", "o", "r", " ",
    "a", "n", "y", " ", "c", "o", "n", "f", "u", "s", "i", "o", "n">>
>>

\* GeminiAI.getFallbackResponse, with `random` the index drawn (1..8)
getFallbackResponse(language, random) ==
  LET chosen == IF language = "hinglish" THEN hinglishFallbacks ELSE englishFallbacks
  IN  chosen[random]

\* the FallbackSet of a language bucket
FallbackSet(language) ==
  LET chosen == IF language = "hinglish" THEN hinglishFallbacks ELSE englishFallbacks
  IN  {chosen[i] : i \in 1..Len(chosen)}

\* WhatsAppHandler.getFallbackMessage, with `random` the index drawn (1..4)
getFallbackMessage(random) == fallbacks[random]

\* cleanResponse.replace(new RegExp(phrase, 'gi'), ''): the occurrences of the
\* phrase found scanning from the left, each search resuming after the match
MatchesAt(text, phrase, i) ==
  /\ i + Len(phrase) - 1 <= Len(text)
  /\ \A k \in 1..Len(phrase) : ToLower(text[i + k - 1]) = ToLower(phrase[k])

\* whether a match that the scan takes starts at i: the phrase is there and
\* no match taken further left covers i
RECURSIVE MatchTaken(_, _, _)
MatchTaken(text, phrase, i) ==
  /\ MatchesAt(text, phrase, i)
  /\ \A j \in (i - Len(phrase) + 1)..(i - 1) :
       j >= 1 => ~MatchTaken(text, phrase, j)

RemoveFrom(text, phrase) ==
  LET starts == {i \in 1..Len(text) : MatchTaken(text, phrase, i)}
      kept == SelectSeq([i \in 1..Len(text) |-> i],
                LAMBDA i : ~\E j \in starts : j <= i /\ i < j + Len(phrase))
  IN  [k \in 1..Len(kept) |-> text[kept[k]]]

RECURSIVE RemovePhrases(_, _)
RemovePhrases(text, k) ==
  IF k > Len(aiPhrases) THEN text
  ELSE RemovePhrases(RemoveFrom(text, aiPhrases[k]), k + 1)

\* String.prototype.trim
Trim(text) ==
  LET solid == {i \in 1..Len(text) : text[i] \notin WhiteSpace}
  IN  IF solid = {} THEN <<>>
      ELSE SubSeq(text, CHOOSE i \in solid : \A j \in solid : i <= j,
                        CHOOSE i \in solid : \A j \in solid : i >= j)

\* text.replace(/\n+/g, ' ')
CollapseNewlines(text) ==
  LET firsts == SelectSeq([i \in 1..Len(text) |-> i],
                  LAMBDA i : text[i] # "\n" \/ i = 1 \/ text[i - 1] # "\n")
  IN  [k \in 1..Len(firsts) |-> IF text[firsts[k]] = "\n" THEN " " ELSE text[firsts[k]]]

\* the response with the AI phrases removed, trimmed, newlines collapsed
CleanResponse(response) == CollapseNewlines(Trim(RemovePhrases(response, 1)))

Ellipsis == <<".", ".", ".">>

\* Variant: the cut keeps 300 code units and then appends the ellipsis.
postProcessResponse_CutsAt300(response, language, random) ==
  LET cleanResponse == CleanResponse(response)
      limited == IF Len(cleanResponse) > MaxReplyLen
                 THEN SubSeq(cleanResponse, 1, MaxReplyLen) \o Ellipsis
                 ELSE cleanResponse
  IN  IF Len(limited) < MinReplyLen
      THEN getFallbackResponse(language, random)
      ELSE limited

\* GeminiAI.postProcessResponse, with `random` the index drawn if the
\* fallback is needed
postProcessResponse(response, language, random) ==
  LET cleanResponse == CleanResponse(response)
      limited == IF Len(cleanResponse) > MaxReplyLen
                 THEN SubSeq(cleanResponse, 1, CutLen) \o Ellipsis
                 ELSE cleanResponse
  IN  IF Len(limited) < MinReplyLen
      THEN getFallbackResponse(language, random)
      ELSE limited

----------------------------------------------------------------------------
(* Initial state: every handler as its constructor leaves it *)

Init ==
  /\ now = 0
  /\ ticks = 0
  /\ messageQueue = [s \in AllSessionIds |-> EmptyMap]
  /\ admitLog = <<>>
  /\ conversationContext = [s \in AllSessionIds |-> EmptyMap]
  /\ sweepTimers = [s \in AllSessionIds |-> <<>>]
  /\ recorded = [s \in AllSessionIds |-> EmptyMap]
  /\ lastSweep = [s \in AllSessionIds |-> -1]
  /\ activeSessions = EmptyMap
  /\ handlers = {}
  /\ client = [s \in AllSessionIds |-> "null"]
  /\ isReady = [s \in AllSessionIds |-> FALSE]
  /\ sockets = [k \in AllSockets |-> [phase |-> "connected", visited |-> {}]]
  /\ ended = {}
  /\ inbound = <<>>
  /\ tasks = <<>>
  /\ sent = <<>>
  /\ db = EmptyMap
  /\ stats = [s \in AllSessionIds |-> [total_messages |-> 0, total_replies |-> 0]]
  /\ faults = 0
  /\ apiLog = <<>>

\* Date.now() moves on by d, at most `most` times in a run
Tick(d, most) ==
  /\ ticks < most
  /\ now' = now + d
  /\ ticks' = ticks + 1

----------------------------------------------------------------------------
(* SpecRate: the rate limiter of a handler, called for any sender at any time *)

Admit(s, phone) ==
  /\ Len(admitLog) < MaxCalls
  /\ LET r == isRateLimited(messageQueue[s], phone, now)
     IN  /\ messageQueue' = [messageQueue EXCEPT ![s] = r.queue]
         /\ admitLog' = Append(admitLog,
              [session |-> s, phone |-> phone, at |-> now, limited |-> r.limited,
               before |-> messageQueue[s], after |-> r.queue])
  /\ UNCHANGED <<now, ticks, ctxVars, sessVars, pipeVars, apiLog>>

TickRate(d) ==
  Tick(d, MaxTicks) /\ UNCHANGED <<rateVars, ctxVars, sessVars, pipeVars, apiLog>>

NextRate ==
  \/ \E s \in SessionIds, phone \in Phones : Admit(s, phone)
  \/ \E d \in TickSteps : TickRate(d)

SpecRate == Init /\ [][NextRate]_vars

\* the calls made for one sender on one handler, in order
CallsOf(s, phone) ==
  SelectSeq(admitLog, LAMBDA e : e.session = s /\ e.phone = phone)

\* the stored window of a sender ("no window" reads as the empty sequence)
WindowOf(queue, phone) == MapGet(queue, phone, <<>>)

\* the timestamps of a window that are not older than 60 seconds at time t
NotOlderThanWindow(window, t) ==
  SelectSeq(window, LAMBDA timestamp : t - timestamp <= RateWindowMs)

\* the same call judged against a given reading of "live"
AdmitContract(e, live) ==
  /\ \A other \in (DOMAIN e.before \cup DOMAIN e.after) \ {e.phone} :
        /\ other \in DOMAIN e.before /\ other \in DOMAIN e.after
        /\ e.after[other] = e.before[other]
  /\ IF Len(live) >= RateMax
     THEN e.limited /\ e.after = e.before
     ELSE ~e.limited /\ WindowOf(e.after, e.phone) = Append(live, e.at)

(* C1: an isRateLimited call for a sender at time now, with live the stored
   timestamps of the sender that are not older than 60 seconds at now: with 2
   or more live timestamps the call rejects and leaves the sender's window as
   it was, otherwise it admits and the window becomes live followed by now;
   no other sender's window changes. *)
C1_AdmitContract ==
  \A i \in 1..Len(admitLog) :
    LET e == admitLog[i]
    IN  AdmitContract(e, NotOlderThanWindow(WindowOf(e.before, e.phone), e.at))

(* C2: for a sender with no prior window, of three calls at t1 <= t2 <= t3
   with t3 - t1 < 60 s the first two admit and the third rejects; and a later
   call at or after t1 + 61 s, with only rejected calls between the third call
   and it, admits. *)
C2_ThirdRejectedThenReadmitted ==
  \A s \in SessionIds, phone \in Phones :
    LET calls == CallsOf(s, phone)
    IN  Len(calls) >= 3 /\ calls[3].at - calls[1].at < 60000
        => /\ ~calls[1].limited
           /\ ~calls[2].limited
           /\ calls[3].limited
           /\ \A j \in 4..Len(calls) :
                 ( /\ calls[j].at >= calls[1].at + 61000
                   /\ \A k \in 4..(j - 1) : calls[k].limited )
                 => ~calls[j].limited

\* a sender whose third call within a minute was rejected, who was rejected
\* again, and whose call 61 s after the first one was admitted
C2_Witness ==
  \E s \in SessionIds, phone \in Phones :
    LET calls == CallsOf(s, phone)
    IN  /\ Len(calls) >= 5
        /\ calls[3].at - calls[1].at < 60000
        /\ calls[3].limited /\ calls[4].limited
        /\ calls[5].at >= calls[1].at + 61000
        /\ ~calls[5].limited

----------------------------------------------------------------------------
(* SpecCtx: the conversation context of a GeminiAI: exchanges recorded for
   any user at any time, and the sweeps scheduled by the recordings *)

RecordedCount(s) ==
  LET Sum[names \in SUBSET DOMAIN recorded[s]] ==
        IF names = {} THEN 0
        ELSE LET n == CHOOSE x \in names : TRUE
             IN  Len(recorded[s][n]) + Sum[names \ {n}]
  IN  Sum[DOMAIN recorded[s]]

Record(s, userName, userMessage, aiResponse) ==
  /\ RecordedCount(s) < MaxRecords
  /\ LET r == updateContext(conversationContext[s], sweepTimers[s],
                            userName, userMessage, aiResponse, now)
     IN  /\ conversationContext' = [conversationContext EXCEPT ![s] = r.ctx]
         /\ sweepTimers' = [sweepTimers EXCEPT ![s] = r.timers]
  /\ recorded' = [recorded EXCEPT ![s] =
       MapSet(@, userName, Append(MapGet(@, userName, <<>>),
         [user |-> userMessage, ai |-> aiResponse, timestamp |-> now]))]
  /\ UNCHANGED <<now, ticks, rateVars, lastSweep, sessVars, pipeVars, apiLog>>

\* a pending timer whose delay has passed fires
Sweep(s, i) ==
  /\ i \in 1..Len(sweepTimers[s])
  /\ sweepTimers[s][i] <= now
  /\ conversationContext' =
       [conversationContext EXCEPT ![s] = SweepCallback(@, now)]
  /\ sweepTimers' = [sweepTimers EXCEPT ![s] = RemoveAt(@, i)]
  /\ lastSweep' = [lastSweep EXCEPT ![s] = now]
  /\ UNCHANGED <<now, ticks, rateVars, recorded, sessVars, pipeVars, apiLog>>

TickCtx(d) ==
  Tick(d, MaxCtxTicks) /\ UNCHANGED <<rateVars, ctxVars, sessVars, pipeVars, apiLog>>

NextCtx ==
  \/ \E s \in SessionIds, userName \in UserNames, userMessage \in CtxUserTexts :
       Record(s, userName, userMessage, CtxAiText(RecordedCount(s) + 1))
  \/ \E s \in SessionIds, i \in 1..MaxRecords : Sweep(s, i)
  \/ \E d \in CtxTickSteps : TickCtx(d)

SpecCtx == Init /\ [][NextCtx]_vars

LastN(seq, n) == IF Len(seq) <= n THEN seq ELSE SubSeq(seq, Len(seq) - n + 1, Len(seq))

\* what the entry of a key should hold: its latest three recorded exchanges,
\* less those the latest sweep found expired
ExpectedEntry(s, userName) ==
  SelectSeq(LastN(recorded[s][userName], 3),
            LAMBDA exchange : lastSweep[s] - exchange.timestamp < 3600000)

(* C6: after any sequence of updateContext calls and sweeps every entry holds
   at most 3 exchanges, and they are exactly the most recently recorded
   exchanges of the key that no sweep found expired, oldest first: a 4th
   record evicts the oldest exchange and nothing else. *)
C6_EntryIsLatestThreeUnexpired ==
  \A s \in SessionIds :
    /\ DOMAIN conversationContext[s] \subseteq DOMAIN recorded[s]
    /\ \A userName \in DOMAIN recorded[s] :
         LET entry == MapGet(conversationContext[s], userName, <<>>)
         IN  /\ Len(entry) <= 3
             /\ entry = ExpectedEntry(s, userName)

\* a key recorded four times whose entry is the latest three
C6_Witness ==
  \E s \in SessionIds : \E userName \in DOMAIN recorded[s] :
    /\ Len(recorded[s][userName]) = 4
    /\ userName \in DOMAIN conversationContext[s]
    /\ conversationContext[s][userName] = Tail(recorded[s][userName])

\* a key whose entry a sweep has shortened
C6_WitnessSwept ==
  \E s \in SessionIds : \E userName \in DOMAIN conversationContext[s] :
    /\ lastSweep[s] >= 0
    /\ Len(conversationContext[s][userName]) < Len(recorded[s][userName])
    /\ Len(recorded[s][userName]) <= 3

(* C7: right after a sweep no entry contains an exchange recorded more than
   1 hour before the sweep, every exchange of an entry recorded less than
   1 hour before it is still there in its original order, and the map has no
   entry with zero exchanges. *)
C7_SweepPostcondition ==
  [][ \A s \in SessionIds :
        Len(sweepTimers'[s]) < Len(sweepTimers[s])
        => /\ DOMAIN conversationContext'[s] \subseteq DOMAIN conversationContext[s]
           /\ \A userName \in DOMAIN conversationContext'[s] :
                conversationContext'[s][userName] # <<>>
           /\ \A userName \in DOMAIN conversationContext[s] :
                LET before == conversationContext[s][userName]
                    after  == MapGet(conversationContext'[s], userName, <<>>)
                    Young(exchange) == now - exchange.timestamp < 3600000
                IN  /\ \A i \in 1..Len(after) :
                         ~(now - after[i].timestamp > 3600000)
                    /\ SelectSeq(after, Young) = SelectSeq(before, Young)
                    /\ \A i \in 1..Len(after) :
                         \E j \in 1..Len(before) : before[j] = after[i]
    ]_vars

\* after a sweep: one key has lost its entry, another has lost an exchange
\* and kept a younger one
C7_Witness ==
  \E s \in SessionIds :
    /\ lastSweep[s] >= 0
    /\ \E userName \in DOMAIN recorded[s] :
         userName \notin DOMAIN conversationContext[s]
    /\ \E userName \in DOMAIN conversationContext[s] :
         /\ Len(recorded[s][userName]) <= 3
         /\ Len(conversationContext[s][userName]) < Len(recorded[s][userName])

\* texts the generator can answer with: an ordinary one, one that is too
\* short once the AI phrase is removed, and one that is too long
RawOrdinary == <<"S", "u", "r", "e", ",", "\n", "\n", "o", "k", "a", "y", "!">>
RawShort    == <<"A", "s", " ", "a", "n", " ", "A", "I", " ", "o", "k", " ">>
RawLong     == Repeat("a", LongLen)
RawResponses == {RawOrdinary, RawShort, RawLong}

----------------------------------------------------------------------------
(* Database (whatsapp_messages and bot_statistics) *)

DbOutcomes == {"ok", "insertFails", "statsFails"}

\* Database.updateStatistics
updateStatistics(st, sessionId, isBot) ==
  IF isBot
  THEN [st EXCEPT ![sessionId].total_replies = @ + 1]
  ELSE [st EXCEPT ![sessionId].total_messages = @ + 1]

\* Database.saveMessage: the INSERT ... ON DUPLICATE KEY UPDATE and, if it
\* succeeds, updateStatistics; `outcome` says which of the two statements
\* fails (each failure is caught and logged)
saveMessage(rows, st, sessionId, messageData, outcome) ==
  IF outcome = "insertFails"
  THEN [db |-> rows, stats |-> st]
  ELSE [db    |-> IF messageData.id \in DOMAIN rows
                  THEN [rows EXCEPT ![messageData.id] =
                          [@ EXCEPT !.message_body = messageData.body,
                                    !.timestamp = messageData.timestamp]]
                  ELSE MapSet(rows, messageData.id,
                         [session_id |-> sessionId, from_name |-> messageData.from,
                          from_phone |-> messageData.phone,
                          message_body |-> messageData.body,
                          chat_id |-> messageData.chatId,
                          is_bot |-> messageData.isBot,
                          timestamp |-> messageData.timestamp]),
        stats |-> IF outcome = "statsFails" THEN st
                  ELSE updateStatistics(st, sessionId, messageData.isBot)]

\* Database.getChatHistory: the answers the store can give, each the latest
\* `limit` rows of the phone, oldest first; the store orders rows of equal
\* timestamp as it likes
getChatHistory(rows, phone, limit) ==
  LET matching == {id \in DOMAIN rows : rows[id].from_phone = phone}
      n == IF Cardinality(matching) < limit THEN Cardinality(matching) ELSE limit
      picks == {f \in [1..n -> matching] :
                  /\ \A i, j \in 1..n : i < j =>
                        /\ f[i] # f[j]
                        /\ rows[f[i]].timestamp <= rows[f[j]].timestamp
                  /\ \A id \in matching \ {f[i] : i \in 1..n} :
                        \A i \in 1..n : rows[id].timestamp <= rows[f[i]].timestamp}
  IN  {[i \in 1..n |-> [from |-> rows[f[i]].from_name,
                        body |-> rows[f[i]].message_body,
                        isBot |-> rows[f[i]].is_bot,
                        timestamp |-> rows[f[i]].timestamp]] : f \in picks}

----------------------------------------------------------------------------
(* Sessions: the socket handlers of the server and the transport events *)

\* socket.on('start-session'): a handler is constructed and stored, and
\* initialize() creates the client and attaches the listeners
StartSession(k, s) ==
  /\ sockets[k].phase = "connected"
  /\ s \notin handlers
  /\ handlers' = handlers \cup {s}
  /\ activeSessions' = MapSet(activeSessions, s,
       [id |-> s, handler |-> s, client |-> "null", socket |-> k])
  /\ client' = [client EXCEPT ![s] = "live"]
  /\ UNCHANGED <<isReady, sockets, ended, now, ticks, rateVars, ctxVars, pipeVars,
                 apiLog>>

\* client.on('ready')
OnReady(s) ==
  /\ client[s] = "live"
  /\ ~isReady[s]
  /\ isReady' = [isReady EXCEPT ![s] = TRUE]
  /\ UNCHANGED <<activeSessions, handlers, client, sockets, ended, now, ticks,
                 rateVars, ctxVars, pipeVars, apiLog>>

\* history: the invocations of session s whose typing delay is pending are
\* marked as having seen the session go Disconnected during the delay
CutSleeps(s) ==
  [t \in DOMAIN tasks |->
     IF tasks[t].session = s /\ tasks[t].pc = "sleep"
     THEN [tasks[t] EXCEPT !.cut = TRUE]
     ELSE tasks[t]]

\* client.on('disconnected')
OnDisconnected(s) ==
  /\ client[s] = "live"
  /\ isReady[s]
  /\ isReady' = [isReady EXCEPT ![s] = FALSE]
  /\ ended' = ended \cup {s}
  /\ tasks' = CutSleeps(s)
  /\ UNCHANGED <<activeSessions, handlers, client, sockets, now, ticks, rateVars,
                 ctxVars, inbound, sent, db, stats, faults, apiLog>>

\* client.on('auth_failure'): the listener reports the failure to the control
\* connection and changes nothing of the handler
OnAuthFailure(s) ==
  /\ client[s] = "live"
  /\ ~isReady[s]
  /\ ended' = ended \cup {s}
  /\ UNCHANGED <<activeSessions, handlers, client, isReady, sockets, now, ticks,
                 rateVars, ctxVars, pipeVars, apiLog>>

\* client.initialize() rejects: initialize() reports the error and keeps the
\* client object, which emits no event from then on
InitFailed(s) ==
  /\ client[s] = "live"
  /\ ~isReady[s]
  /\ client' = [client EXCEPT ![s] = "failed"]
  /\ ended' = ended \cup {s}
  /\ UNCHANGED <<activeSessions, handlers, isReady, sockets, now, ticks, rateVars,
                 ctxVars, pipeVars, apiLog>>

----------------------------------------------------------------------------
(* GeminiAI.generateResponse *)

\* what axios.post can end with: a candidate text, a response without a
\* candidate text (or with an empty one), a timeout or network error
GenResults ==
  {[kind |-> "text", raw |-> raw, random |-> random] :
     raw \in RawResponses, random \in Draws(hinglishFallbacks)}
  \cup {[kind |-> "empty", raw |-> <<>>, random |-> 1]}
  \cup {[kind |-> "error", raw |-> <<>>, random |-> random] :
          random \in Draws(hinglishFallbacks)}

\* the results of a generator whose texts need no cut and no replacement
PlainResults == {result \in GenResults : result.raw \in {<<>>, RawOrdinary}}
BurstResults == {result \in PlainResults : result.kind = "text" /\ result.random = 1}

\* GeminiAI.generateResponse once axios.post has ended with `result`: whether
\* a text is returned (reply) or null, the text, and whether updateContext
\* is called with it (record)
generateResponse(result, userMessage, language) ==
  CASE result.kind = "text" ->
         [reply |-> TRUE, record |-> TRUE,
          text |-> postProcessResponse(Trim(result.raw), language, result.random)]
    [] result.kind = "empty" ->
         [reply |-> FALSE, record |-> FALSE, text |-> <<>>]
    [] OTHER ->
         [reply |-> TRUE, record |-> FALSE,
          text |-> getFallbackResponse(detectLanguage(userMessage), result.random)]

\* generateResponse for every generator result and message body of the model,
\* computed once: the language detected, the cleaned candidate text, and what
\* generateResponse returns
Generated ==
  {<<result, body,
     [language |-> detectLanguage(body),
      cleaned  |-> IF result.kind = "text"
                   THEN CleanResponse(Trim(result.raw)) ELSE <<>>,
      out      |-> generateResponse(result, body, detectLanguage(body))]>> :
     result \in GenResults, body \in Bodies \cup {<<>>}}

GeneratedFor(result, body) ==
  (CHOOSE e \in Generated : e[1] = result /\ e[2] = body)[3]

\* detectLanguage for every message body of the model, computed once
Detected == {<<body, detectLanguage(body)>> : body \in Bodies \cup {<<>>}}

DetectedFor(body) == (CHOOSE e \in Detected : e[1] = body)[2]

----------------------------------------------------------------------------
(* The reply pipeline: WhatsAppHandler.handleIncomingMessage and what it
   calls.  One action is the code that runs between two awaits. *)

InFlight == Cardinality({t \in 1..Len(tasks) : tasks[t].pc # "done"})

\* the timers that are pending: the sleep of simulateTyping of each task and
\* the setTimeout of each updateContext call
PendingTimers ==
  {tasks[t].due : t \in {u \in 1..Len(tasks) : tasks[u].pc = "sleep"}}
  \cup UNION {{sweepTimers[s][i] : i \in 1..Len(sweepTimers[s])} : s \in SessionIds}

\* a timer fires when it is the earliest one pending, and by then Date.now()
\* has reached its time
Fires(due) ==
  /\ \A other \in PendingTimers : due <= other
  /\ now' = IF due > now THEN due ELSE now

\* handleIncomingMessage up to its first await
NewTask(s, i, type, event) ==
  LET skip == ~isReady[s] \/ type = "e2e_notification"
  IN  [pc |-> IF skip THEN "done" ELSE "getChat",
       outcome |-> IF skip THEN "Skipped" ELSE "none",
       session |-> s, msg |-> i, event |-> event,
       language |-> "none", gen |-> "none", genCalls |-> 0,
       cleaned |-> <<>>, aiResponse |-> <<>>, due |-> 0,
       presence |-> 0, dbCalls |-> 0, statMessages |-> 0, statReplies |-> 0,
       botId |-> <<>>, botAt |-> 0, cut |-> FALSE,
       chatHistory |-> <<>>, failedCalls |-> {}]

\* client.on('message_create'): the listener ignores the account's own
\* messages and calls handleIncomingMessage for the others
OnMessageCreate(list, s, i, kind) ==
  IF kind.fromMe THEN list
  ELSE Append(list, NewTask(s, i, kind.type, "message_create"))

\* client.on('message'): the listener calls handleIncomingMessage
OnMessage(list, s, i, kind) ==
  Append(list, NewTask(s, i, kind.type, "message"))

\* the transport takes in a message: it emits message_create for it and, for
\* a message that the account did not send itself, message as well
Deliver(s, kind) ==
  /\ client[s] = "live"
  /\ inbound' = Append(inbound,
       [session |-> s, phone |-> kind.phone, name |-> kind.name,
        body |-> kind.body, type |-> kind.type, isGroup |-> kind.isGroup,
        fromMe |-> kind.fromMe, at |-> now, ready |-> isReady[s]])
  /\ tasks' = LET i == Len(inbound) + 1
                  created == OnMessageCreate(tasks, s, i, kind)
              IN  IF kind.fromMe THEN created ELSE OnMessage(created, s, i, kind)
  /\ UNCHANGED <<sent, db, stats, faults, now, ticks, rateVars, ctxVars, sessVars,
                 apiLog>>

\* a collaborator call may fail while the run has failures left
MayFail(ok) == ok \/ faults < MaxFaults

Faults(ok) == IF ok THEN faults ELSE faults + 1

\* history: the statement of a saveMessage call that failed
FailedStoreCall(outcome, call) ==
  IF outcome = "statsFails" THEN "updateStatistics" ELSE call

\* history: the collaborator calls of the invocation that failed
Noting(task, ok, call) ==
  IF ok THEN task ELSE [task EXCEPT !.failedCalls = @ \cup {call}]

\* the task ends: the invocation returns to the listener
Done(task, outcome) == [task EXCEPT !.pc = "done", !.outcome = outcome, !.due = 0]

\* message.reply(text) is called
ReplyCall(t, text, kind) ==
  Append(sent, [task |-> t, msg |-> tasks[t].msg, text |-> text, kind |-> kind])

\* messageData of handleIncomingMessage
InboundData(i) ==
  [id |-> <<"msg", i>>, from |-> inbound[i].name, phone |-> inbound[i].phone,
   body |-> inbound[i].body, type |-> inbound[i].type,
   timestamp |-> inbound[i].at, chatId |-> inbound[i].phone, isBot |-> FALSE]

\* the message saved for the reply in processAndReply
BotData(task) ==
  [id |-> task.botId, from |-> "AI Bot", phone |-> "system",
   body |-> task.aiResponse, type |-> "chat", timestamp |-> task.botAt,
   chatId |-> inbound[task.msg].phone, isBot |-> TRUE]

\* Variant: an error of message.getChat() or message.getContact() is not
\* caught: the rejection leaves the listener and the process ends.
GetChat_Propagates(t, ok) ==
  /\ t \in 1..Len(tasks)
  /\ tasks[t].pc = "getChat"
  /\ MayFail(ok)
  /\ LET task == tasks[t]
         m == inbound[task.msg]
         r == isRateLimited(messageQueue[task.session], m.phone, now)
     IN  IF ~ok
         THEN /\ tasks' = [tasks EXCEPT ![t] =
                   Done(Noting(task, FALSE, "getChat"), "Unhandled")]
              /\ isReady' = [s \in DOMAIN isReady |-> FALSE]
              /\ client' = [s \in DOMAIN client |-> "null"]
              /\ UNCHANGED messageQueue
         ELSE /\ UNCHANGED <<isReady, client>>
              /\ IF m.isGroup
                 THEN /\ tasks' = [tasks EXCEPT ![t] = Done(task, "Skipped")]
                      /\ UNCHANGED messageQueue
                 ELSE /\ messageQueue' = [messageQueue EXCEPT ![task.session] = r.queue]
                      /\ tasks' = [tasks EXCEPT ![t] =
                           IF r.limited THEN Done(task, "Dropped")
                           ELSE [task EXCEPT !.pc = "saveInbound", !.dbCalls = @ + 1]]
  /\ faults' = Faults(ok)
  /\ UNCHANGED <<inbound, sent, db, stats, admitLog, now, ticks, ctxVars,
                 activeSessions, handlers, sockets, ended, apiLog>>

\* Variant: the rate limit is consulted before the group test, so a group
\* message takes a slot of its sender's window.
GetChat_LimitsFirst(t, ok) ==
  /\ t \in 1..Len(tasks)
  /\ tasks[t].pc = "getChat"
  /\ MayFail(ok)
  /\ LET task == tasks[t]
         m == inbound[task.msg]
         r == isRateLimited(messageQueue[task.session], m.phone, now)
     IN  IF ~ok
         THEN /\ tasks' = [tasks EXCEPT ![t] =
                   Done(Noting(task, FALSE, "getChat"), "Failed")]
              /\ UNCHANGED messageQueue
         ELSE /\ messageQueue' = [messageQueue EXCEPT ![task.session] = r.queue]
              /\ tasks' = [tasks EXCEPT ![t] =
                   IF r.limited THEN Done(task, "Dropped")
                   ELSE IF m.isGroup THEN Done(task, "Skipped")
                   ELSE [task EXCEPT !.pc = "saveInbound", !.dbCalls = @ + 1]]
  /\ faults' = Faults(ok)
  /\ UNCHANGED <<inbound, sent, db, stats, admitLog, now, ticks, ctxVars, sessVars,
                 apiLog>>

\* message.getChat() and message.getContact() answer; then the group test
\* and the rate limit, and database.saveMessage is called
GetChat(t, ok) ==
  /\ t \in 1..Len(tasks)
  /\ tasks[t].pc = "getChat"
  /\ MayFail(ok)
  /\ LET task == tasks[t]
         m == inbound[task.msg]
         r == isRateLimited(messageQueue[task.session], m.phone, now)
     IN  IF ~ok
         THEN /\ tasks' = [tasks EXCEPT ![t] =
                   Done(Noting(task, FALSE, "getChat"), "Failed")]
              /\ UNCHANGED messageQueue
         ELSE IF m.isGroup
         THEN /\ tasks' = [tasks EXCEPT ![t] = Done(task, "Skipped")]
              /\ UNCHANGED messageQueue
         ELSE /\ messageQueue' = [messageQueue EXCEPT ![task.session] = r.queue]
              /\ tasks' = [tasks EXCEPT ![t] =
                   IF r.limited THEN Done(task, "Dropped")
                   ELSE [task EXCEPT !.pc = "saveInbound", !.dbCalls = @ + 1]]
  /\ faults' = Faults(ok)
  /\ UNCHANGED <<inbound, sent, db, stats, admitLog, now, ticks, ctxVars, sessVars,
                 apiLog>>

\* Variant: a failure of database.saveMessage ends the invocation.
SaveInbound_StopsOnFailure(t, outcome) ==
  /\ t \in 1..Len(tasks)
  /\ tasks[t].pc = "saveInbound"
  /\ MayFail(outcome = "ok")
  /\ LET task == tasks[t]
         r == saveMessage(db, stats, task.session, InboundData(task.msg), outcome)
     IN  /\ db' = r.db
         /\ stats' = r.stats
         /\ tasks' = [tasks EXCEPT ![t] =
              IF outcome = "ok"
              THEN [task EXCEPT !.pc = "history", !.dbCalls = @ + 1,
                      !.statMessages = @ + 1]
              ELSE Done(Noting(task, FALSE, "saveInbound"), "Failed")]
  /\ faults' = Faults(outcome = "ok")
  /\ UNCHANGED <<inbound, sent, now, ticks, rateVars, ctxVars, sessVars, apiLog>>

\* database.saveMessage of the inbound message answers; then the socket
\* emit, and processAndReply calls database.getChatHistory
SaveInbound(t, outcome) ==
  /\ t \in 1..Len(tasks)
  /\ tasks[t].pc = "saveInbound"
  /\ MayFail(outcome = "ok")
  /\ LET task == tasks[t]
         r == saveMessage(db, stats, task.session, InboundData(task.msg), outcome)
     IN  /\ db' = r.db
         /\ stats' = r.stats
         /\ tasks' = [tasks EXCEPT ![t] =
              Noting([task EXCEPT !.pc = "history", !.dbCalls = @ + 1,
                        !.statMessages = @ + (IF outcome = "ok" THEN 1 ELSE 0)],
                     outcome = "ok", FailedStoreCall(outcome, "saveInbound"))]
  /\ faults' = Faults(outcome = "ok")
  /\ UNCHANGED <<inbound, sent, now, ticks, rateVars, ctxVars, sessVars, apiLog>>

\* database.getChatHistory answers (the rows, or [] after an error); then
\* generateResponse detects the language, builds the prompt and posts it
GetChatHistory(t, ok) ==
  /\ t \in 1..Len(tasks)
  /\ tasks[t].pc = "history"
  /\ MayFail(ok)
  /\ \E history \in (IF ok
                      THEN getChatHistory(db, inbound[tasks[t].msg].phone,
                                          HistoryLimit)
                      ELSE {<<>>}) :
       tasks' = [tasks EXCEPT ![t] =
         Noting([@ EXCEPT !.pc = "generate", !.genCalls = @ + 1,
                   !.chatHistory = history,
                   !.language = DetectedFor(inbound[tasks[t].msg].body)],
                ok, "getChatHistory")]
  /\ faults' = Faults(ok)
  /\ UNCHANGED <<inbound, sent, db, stats, now, ticks, rateVars, ctxVars, sessVars,
                 apiLog>>

\* axios.post ends; generateResponse returns; with a response processAndReply
\* starts simulateTyping, which calls message.getChat()
Generate(t, result) ==
  /\ t \in 1..Len(tasks)
  /\ tasks[t].pc = "generate"
  /\ MayFail(result.kind = "text")
  /\ LET task == tasks[t]
         s == task.session
         m == inbound[task.msg]
         g == GeneratedFor(result, m.body).out
         u == updateContext(conversationContext[s], sweepTimers[s],
                            m.name, m.body, g.text, now)
         after == Noting([task EXCEPT !.gen = result.kind, !.aiResponse = g.text,
                            !.cleaned = GeneratedFor(result, m.body).cleaned],
                         result.kind = "text", "generateResponse")
     IN  /\ tasks' = [tasks EXCEPT ![t] =
              IF g.reply /\ g.text # <<>>
              THEN [after EXCEPT !.pc = "typingChat"]
              ELSE Done(after, "NoReply")]
         /\ IF g.record
            THEN /\ conversationContext' = [conversationContext EXCEPT ![s] = u.ctx]
                 /\ sweepTimers' = [sweepTimers EXCEPT ![s] = u.timers]
            ELSE UNCHANGED <<conversationContext, sweepTimers>>
  /\ faults' = Faults(result.kind = "text")
  /\ UNCHANGED <<inbound, sent, db, stats, recorded, lastSweep, now, ticks, rateVars,
                 sessVars, apiLog>>

\* simulateTyping: message.getChat() answers and chat.sendStateTyping() is
\* called; an error ends simulateTyping, and message.reply is called
TypingGetChat(t, ok) ==
  /\ t \in 1..Len(tasks)
  /\ tasks[t].pc = "typingChat"
  /\ MayFail(ok)
  /\ tasks' = [tasks EXCEPT ![t] =
       Noting(IF ok THEN [@ EXCEPT !.pc = "typingStart", !.presence = @ + 1]
              ELSE [@ EXCEPT !.pc = "reply"],
              ok, "message.getChat")]
  /\ sent' = IF ok THEN sent ELSE ReplyCall(t, tasks[t].aiResponse, "reply")
  /\ faults' = Faults(ok)
  /\ UNCHANGED <<inbound, db, stats, now, ticks, rateVars, ctxVars, sessVars, apiLog>>

\* simulateTyping: chat.sendStateTyping() answers and sleep(delay) starts
TypingStart(t, ok, delay) ==
  /\ t \in 1..Len(tasks)
  /\ tasks[t].pc = "typingStart"
  /\ MayFail(ok)
  /\ tasks' = [tasks EXCEPT ![t] =
       Noting(IF ok THEN [@ EXCEPT !.pc = "sleep", !.due = now + delay]
              ELSE [@ EXCEPT !.pc = "reply"],
              ok, "sendStateTyping")]
  /\ sent' = IF ok THEN sent ELSE ReplyCall(t, tasks[t].aiResponse, "reply")
  /\ faults' = Faults(ok)
  /\ UNCHANGED <<inbound, db, stats, now, ticks, rateVars, ctxVars, sessVars, apiLog>>

\* simulateTyping: the sleep timer fires and chat.clearState() is called
SleepDone(t) ==
  /\ t \in 1..Len(tasks)
  /\ tasks[t].pc = "sleep"
  /\ Fires(tasks[t].due)
  /\ tasks' = [tasks EXCEPT ![t] =
       [@ EXCEPT !.pc = "typingClear", !.presence = @ + 1, !.due = 0]]
  /\ UNCHANGED <<inbound, sent, db, stats, faults, ticks, rateVars, ctxVars,
                 sessVars, apiLog>>

\* simulateTyping: chat.clearState() answers (an error is caught), and
\* processAndReply calls message.reply(aiResponse)
TypingClear(t, ok) ==
  /\ t \in 1..Len(tasks)
  /\ tasks[t].pc = "typingClear"
  /\ MayFail(ok)
  /\ tasks' = [tasks EXCEPT ![t] =
       Noting([@ EXCEPT !.pc = "reply"], ok, "clearState")]
  /\ sent' = ReplyCall(t, tasks[t].aiResponse, "reply")
  /\ faults' = Faults(ok)
  /\ UNCHANGED <<inbound, db, stats, now, ticks, rateVars, ctxVars, sessVars, apiLog>>

\* message.reply(aiResponse) answers: database.saveMessage is called for the
\* reply, or after an error message.reply(getFallbackMessage()) is called
ReplyAnswers(t, ok, random) ==
  /\ t \in 1..Len(tasks)
  /\ tasks[t].pc = "reply"
  /\ MayFail(ok)
  /\ tasks' = [tasks EXCEPT ![t] =
       Noting(IF ok THEN [@ EXCEPT !.pc = "saveOutbound", !.dbCalls = @ + 1,
                            !.botId = <<"bot", now>>, !.botAt = now]
              ELSE [@ EXCEPT !.pc = "fallbackReply"],
              ok, "message.reply")]
  /\ sent' = IF ok THEN sent ELSE ReplyCall(t, getFallbackMessage(random), "fallback")
  /\ faults' = Faults(ok)
  /\ UNCHANGED <<inbound, db, stats, now, ticks, rateVars, ctxVars, sessVars, apiLog>>

\* database.saveMessage of the reply answers; processAndReply returns
SaveOutbound(t, outcome) ==
  /\ t \in 1..Len(tasks)
  /\ tasks[t].pc = "saveOutbound"
  /\ MayFail(outcome = "ok")
  /\ LET task == tasks[t]
         r == saveMessage(db, stats, task.session, BotData(task), outcome)
     IN  /\ db' = r.db
         /\ stats' = r.stats
         /\ tasks' = [tasks EXCEPT ![t] =
              Done(Noting([task EXCEPT
                             !.statReplies = @ + (IF outcome = "ok" THEN 1 ELSE 0)],
                          outcome = "ok", FailedStoreCall(outcome, "saveOutbound")),
                   "Replied")]
  /\ faults' = Faults(outcome = "ok")
  /\ UNCHANGED <<inbound, sent, now, ticks, rateVars, ctxVars, sessVars, apiLog>>

\* message.reply(fallbackMessage) answers (an error is caught)
FallbackReplyAnswers(t, ok) ==
  /\ t \in 1..Len(tasks)
  /\ tasks[t].pc = "fallbackReply"
  /\ MayFail(ok)
  /\ tasks' = [tasks EXCEPT ![t] = Done(Noting(@, ok, "fallback reply"), "Failed")]
  /\ faults' = Faults(ok)
  /\ UNCHANGED <<inbound, sent, db, stats, now, ticks, rateVars, ctxVars, sessVars,
                 apiLog>>

\* the setTimeout callback of an updateContext call of the pipeline
SweepPipe(s, i) ==
  /\ i \in 1..Len(sweepTimers[s])
  /\ InFlight = 0
  /\ Fires(sweepTimers[s][i])
  /\ conversationContext' =
       [conversationContext EXCEPT ![s] = SweepCallback(@, now')]
  /\ sweepTimers' = [sweepTimers EXCEPT ![s] = RemoveAt(@, i)]
  /\ UNCHANGED <<recorded, lastSweep, ticks, rateVars, sessVars, pipeVars, apiLog>>

\* the run may take in `messages` inbound messages, and takes one in when
\* fewer than MaxInFlight invocations of handleIncomingMessage are under way
Room(messages) ==
  /\ Len(inbound) < messages
  /\ InFlight < MaxInFlight

\* time passes while the handler is idle and no timer is due
TickPipe(d) ==
  /\ InFlight = 0
  /\ \A due \in PendingTimers : now + d <= due
  /\ Tick(d, MaxPipeTicks)
  /\ UNCHANGED <<rateVars, ctxVars, sessVars, pipeVars, apiLog>>

\* the pipeline steps of invocation t, with the delays that Math.random()
\* can give, the results the generator can end with and whether the
\* collaborator calls may fail
Step(t, results, oks, outcomes, delays) ==
  \/ \E ok \in oks : GetChat(t, ok)
  \/ \E outcome \in outcomes : SaveInbound(t, outcome)
  \/ \E ok \in oks : GetChatHistory(t, ok)
  \/ \E result \in results : Generate(t, result)
  \/ \E ok \in oks : TypingGetChat(t, ok)
  \/ \E ok \in oks, delay \in delays : TypingStart(t, ok, delay)
  \/ SleepDone(t)
  \/ \E ok \in oks : TypingClear(t, ok)
  \/ \E ok \in oks, random \in Draws(fallbacks) : ReplyAnswers(t, ok, random)
  \/ \E outcome \in outcomes : SaveOutbound(t, outcome)

\* Spec: one inbound message of any kind at a session in any state, with
\* collaborator calls that may fail
Next ==
  \/ \E k \in Sockets, s \in SessionIds : StartSession(k, s)
  \/ \E s \in SessionIds : OnReady(s)
  \/ \E s \in SessionIds : OnDisconnected(s)
  \/ \E s \in SessionIds, kind \in InboundKinds :
       Room(MaxMessages) /\ Deliver(s, kind)
  \/ \E t \in 1..Len(tasks) :
       Step(t, PlainResults, BOOLEAN, DbOutcomes, TypingDelays)
  \/ \E t \in 1..Len(tasks), ok \in BOOLEAN : FallbackReplyAnswers(t, ok)
  \/ \E s \in SessionIds : \E i \in 1..Len(sweepTimers[s]) : SweepPipe(s, i)
  \/ \E d \in PipeTickSteps : TickPipe(d)

Spec == Init /\ [][Next]_vars

\* SpecReply: one chat message at a session, with every text the generator
\* can answer with
NextReply ==
  \/ \E k \in Sockets, s \in SessionIds : StartSession(k, s)
  \/ \E s \in SessionIds : OnReady(s)
  \/ \E s \in SessionIds, kind \in ChatKinds :
       Room(MaxMessages) /\ Deliver(s, kind)
  \/ \E t \in 1..Len(tasks) :
       Step(t, GenResults, BOOLEAN, DbOutcomes, {ShortestDelay})
  \/ \E t \in 1..Len(tasks), ok \in BOOLEAN : FallbackReplyAnswers(t, ok)
  \/ \E s \in SessionIds : \E i \in 1..Len(sweepTimers[s]) : SweepPipe(s, i)

SpecReply == Init /\ [][NextReply]_vars

\* SpecBurst: the messages of one sender at a session that stays Ready, with
\* collaborators that do not fail
NextBurst ==
  \/ \E k \in Sockets, s \in SessionIds : StartSession(k, s)
  \/ \E s \in SessionIds : OnReady(s)
  \/ \E s \in SessionIds, kind \in BurstKinds :
       Room(MaxBurst) /\ Deliver(s, kind)
  \/ \E t \in 1..Len(tasks) :
       Step(t, BurstResults, {TRUE}, {"ok"}, {ShortestDelay})
  \/ \E s \in SessionIds : \E i \in 1..Len(sweepTimers[s]) : SweepPipe(s, i)
  \/ \E d \in PipeTickSteps : TickPipe(d)

SpecBurst == Init /\ [][NextBurst]_vars

----------------------------------------------------------------------------
(* SpecSession: the sessions of the server and POST /api/send-message *)

\* WhatsAppHandler.sendMessage: it throws if the handler is not ready, and
\* otherwise calls client.sendMessage, which succeeds (ok) or throws
sendMessage(ready, ok) ==
  IF ~ready
  THEN [threw |-> TRUE, error |-> "WhatsApp client is not ready", calls |-> 0]
  ELSE IF ok THEN [threw |-> FALSE, error |-> "", calls |-> 1]
  ELSE [threw |-> TRUE, error |-> "send failed", calls |-> 1]

\* socket.on('stop-session'): destroy() of the handler of a session that is
\* held (client.destroy() succeeds or throws), and the session is forgotten
StopSession(k, s, ok) ==
  /\ sockets[k].phase = "connected"
  /\ s \in DOMAIN activeSessions
  /\ client' = [client EXCEPT ![s] = IF ok THEN "null" ELSE @]
  /\ isReady' = [isReady EXCEPT ![s] = IF ok /\ client[s] # "null" THEN FALSE ELSE @]
  /\ activeSessions' = MapDelete(activeSessions, s)
  /\ ended' = ended \cup {s}
  /\ tasks' = CutSleeps(s)
  /\ UNCHANGED <<handlers, sockets, now, ticks, rateVars, ctxVars, inbound, sent, db,
                 stats, faults, apiLog>>

\* Variant: a session that is held is handed the message without a test.
ApiSendMessage_SendsIfHeld(sessionId, complete, ok) ==
  /\ Len(apiLog) < MaxApiCalls
  /\ LET held == sessionId \in DOMAIN activeSessions
         ready == sessionId \in SessionIds /\ isReady[sessionId]
         r == sendMessage(TRUE, ok)
         entry == [sessionId |-> sessionId, complete |-> complete,
                   held |-> held, ready |-> ready, ok |-> ok]
     IN  apiLog' = Append(apiLog,
           IF ~complete
           THEN entry @@ [status |-> 400, calls |-> 0,
                          error |-> "Missing required fields: sessionId, to, message"]
           ELSE IF ~held
           THEN entry @@ [status |-> 404, calls |-> 0,
                          error |-> "Session not found or not ready"]
           ELSE IF r.threw
           THEN entry @@ [status |-> 500, calls |-> r.calls, error |-> r.error]
           ELSE entry @@ [status |-> 200, calls |-> r.calls, error |-> ""])
  /\ UNCHANGED <<now, ticks, rateVars, ctxVars, sessVars, pipeVars>>

\* app.post('/api/send-message'): 400 if a field is missing, 404 if the
\* session is not held or its record has no client, and otherwise the result
\* of handler.sendMessage
ApiSendMessage(sessionId, complete, ok) ==
  /\ Len(apiLog) < MaxApiCalls
  /\ LET held == sessionId \in DOMAIN activeSessions
         ready == sessionId \in SessionIds /\ isReady[sessionId]
         r == sendMessage(ready, ok)
         entry == [sessionId |-> sessionId, complete |-> complete,
                   held |-> held, ready |-> ready, ok |-> ok]
     IN  apiLog' = Append(apiLog,
           IF ~complete
           THEN entry @@ [status |-> 400, calls |-> 0,
                          error |-> "Missing required fields: sessionId, to, message"]
           ELSE IF ~held \/ activeSessions[sessionId].client = "null"
           THEN entry @@ [status |-> 404, calls |-> 0,
                          error |-> "Session not found or not ready"]
           ELSE IF r.threw
           THEN entry @@ [status |-> 500, calls |-> r.calls, error |-> r.error]
           ELSE entry @@ [status |-> 200, calls |-> r.calls, error |-> ""])
  /\ UNCHANGED <<now, ticks, rateVars, ctxVars, sessVars, pipeVars>>

NextSession ==
  \/ \E k \in Sockets, s \in SessionIds : StartSession(k, s)
  \/ \E s \in SessionIds : OnReady(s)
  \/ \E s \in SessionIds : OnDisconnected(s)
  \/ \E k \in Sockets, s \in SessionIds, ok \in BOOLEAN : StopSession(k, s, ok)
  \/ \E sessionId \in SessionIds \cup {UnknownSession}, complete, ok \in BOOLEAN :
       ApiSendMessage(sessionId, complete, ok)

SpecSession == Init /\ [][NextSession]_vars

----------------------------------------------------------------------------
(* Claims about the reply pipeline *)

\* the invocations and the replies of inbound message i
TasksOf(i) == {t \in 1..Len(tasks) : tasks[t].msg = i}

SentFor(i) == {k \in 1..Len(sent) : sent[k].msg = i}

\* every listener invocation for message i has returned
AllDone(i) == TasksOf(i) # {} /\ \A t \in TasksOf(i) : tasks[t].pc = "done"

\* a chat message of a contact that reached a Ready session
Answerable(i) ==
  /\ inbound[i].ready
  /\ inbound[i].type = "chat"
  /\ ~inbound[i].isGroup
  /\ ~inbound[i].fromMe

FirstEver(i) == \A j \in 1..(i - 1) : inbound[j].phone # inbound[i].phone

\* the rows of the store for message i: the inbound one and the replies
InboundRows(i) == {id \in DOMAIN db : id = <<"msg", i>> /\ ~db[id].is_bot}

OutboundRows(i) ==
  {id \in DOMAIN db : db[id].is_bot /\ \E t \in TasksOf(i) : tasks[t].botId = id}

\* C3: when a sender's first-ever message has arrived at a Ready session,
\* generation succeeded (and no collaborator call failed) and the handling
\* of the message is over, one non-empty reply was sent for it, the store
\* holds exactly one inbound and one outbound row for it, and the handling
\* added exactly 1 to total_messages and exactly 1 to total_replies.
C3_FirstMessageRepliedOnce ==
  \A i \in 1..Len(inbound) :
    ( /\ FirstEver(i)
      /\ Answerable(i)
      /\ AllDone(i)
      /\ faults = 0
      /\ \A t \in TasksOf(i) : tasks[t].gen = "text" )
    => /\ Cardinality(SentFor(i)) = 1
       /\ \A k \in SentFor(i) : sent[k].text # <<>>
       /\ Cardinality(InboundRows(i)) = 1
       /\ Cardinality(OutboundRows(i)) = 1
       /\ Cardinality({t \in TasksOf(i) : tasks[t].statMessages = 1}) = 1
       /\ Cardinality({t \in TasksOf(i) : tasks[t].statReplies = 1}) = 1

\* C4: when the first three messages of one sender have arrived at a Ready
\* session within the same minute and their handling is over, the first and
\* the second were each admitted and replied to, and every invocation for
\* the third ended Dropped with no generation call and no store call.
C4_TwoRepliedThirdDropped ==
  ( /\ Len(inbound) >= 3
    /\ \A i \in 1..3 : Answerable(i) /\ AllDone(i)
                        /\ inbound[i].phone = inbound[1].phone
    /\ inbound[3].at - inbound[1].at < 60000 )
  => /\ \A i \in 1..2 : /\ \E t \in TasksOf(i) : tasks[t].outcome = "Replied"
                        /\ SentFor(i) # {}
     /\ \A t \in TasksOf(3) : /\ tasks[t].outcome = "Dropped"
                              /\ tasks[t].genCalls = 0
                              /\ tasks[t].dbCalls = 0
     /\ SentFor(3) = {}

\* C5: the step in which the rate check of an invocation rejects changes
\* neither the rate windows, nor the conversation contexts and their timers,
\* nor the store, nor the counters, nor what was sent; and an invocation that
\* ended Dropped has made no generation call, no store call, no counter
\* update, no presence call and no send.
C5_StepRejects(t) ==
  /\ t \in 1..Len(tasks)
  /\ tasks[t].pc # "done"
  /\ tasks'[t].outcome = "Dropped"

C5_DroppedDidNothing(task, t) ==
  /\ task.genCalls = 0
  /\ task.dbCalls = 0
  /\ task.presence = 0
  /\ task.statMessages = 0
  /\ task.statReplies = 0
  /\ \A k \in 1..Len(sent) : sent[k].task # t

C5_RejectedHasNoEffect ==
  [][ /\ \A t \in 1..Len(tasks) :
           C5_StepRejects(t) =>
             UNCHANGED <<messageQueue, conversationContext, sweepTimers,
                         db, stats, sent>>
      /\ \A t \in 1..Len(tasks) :
           tasks[t].outcome = "Dropped" =>
             /\ tasks'[t] = tasks[t]
             /\ C5_DroppedDidNothing(tasks[t], t) ]_vars

C5_Witness ==
  \E t \in 1..Len(tasks) :
    /\ tasks[t].outcome = "Dropped"
    /\ inbound[tasks[t].msg].phone \in DOMAIN messageQueue[tasks[t].session]
    /\ Len(messageQueue[tasks[t].session][inbound[tasks[t].msg].phone]) = 2
    /\ conversationContext[tasks[t].session] # EmptyMap
    /\ db # EmptyMap

\* C8: for every admitted message whose generation failed (timeout, network
\* error or a response without text), once the invocation is over a reply
\* was sent for it, every reply sent for it is a member of the fallback set
\* of the language detected for the inbound text, and the generator was
\* called at most once.
C8_FallbackOnGenerationFailure ==
  \A t \in 1..Len(tasks) :
    (tasks[t].pc = "done" /\ tasks[t].gen \in {"empty", "error"})
    => /\ \E k \in 1..Len(sent) : sent[k].task = t
       /\ \A k \in 1..Len(sent) :
            sent[k].task = t =>
              sent[k].text \in FallbackSet(detectLanguage(inbound[tasks[t].msg].body))
       /\ tasks[t].genCalls <= 1

\* C9: every text handed to the transport as a reply is non-empty and at
\* most 300 code units long; the reply for a cleaned generated text longer
\* than 300 is its first 297 code units followed by "...", and a cleaned
\* generated text shorter than 5 is never sent: the reply is a member of the
\* fallback set of the detected language.
C9_ReplyTextBounded ==
  /\ \A k \in 1..Len(sent) : sent[k].text # <<>> /\ Len(sent[k].text) <= 300
  /\ \A k \in 1..Len(sent) :
       LET task == tasks[sent[k].task]
       IN  (sent[k].kind = "reply" /\ task.gen = "text") =>
             /\ Len(task.cleaned) > 300 =>
                  sent[k].text = SubSeq(task.cleaned, 1, 297) \o <<".", ".", ".">>
             /\ Len(task.cleaned) < 5 =>
                  sent[k].text \in FallbackSet(task.language)
  /\ \A k \in 1..Len(sent) :
       \A t \in 1..Len(tasks) :
         (tasks[t].gen = "text" /\ Len(tasks[t].cleaned) < 5) =>
           sent[k].text # tasks[t].cleaned

C9_Witness ==
  \E k \in 1..Len(sent) :
    /\ sent[k].kind = "reply"
    /\ Len(tasks[sent[k].task].cleaned) = LongLen
    /\ Len(sent[k].text) = 300

C9_WitnessShort ==
  \E k \in 1..Len(sent) :
    /\ sent[k].kind = "reply"
    /\ tasks[sent[k].task].gen = "text"
    /\ tasks[sent[k].task].cleaned = <<"o", "k">>
    /\ sent[k].text \in FallbackSet("english")

C9_WitnessFallbackMessage ==
  \E k \in 1..Len(sent) : sent[k].kind = "fallback"

----------------------------------------------------------------------------
(* Claims about sendMessage *)

NotReadyErrors == {"Session not found or not ready", "WhatsApp client is not ready"}

\* C10: a send-message request that names a session which is not Ready
\* (initializing, disconnected or stopped) ends with a not-ready result and
\* without a call of client.sendMessage.
C10_NotReadyRejected ==
  \A n \in 1..Len(apiLog) :
    LET e == apiLog[n]
    IN  (e.complete /\ e.sessionId \in handlers /\ ~e.ready) =>
          /\ e.status # 200
          /\ e.error \in NotReadyErrors
          /\ e.calls = 0

C10_Witness ==
  \E n \in 1..Len(apiLog) :
    /\ apiLog[n].complete
    /\ apiLog[n].held
    /\ ~apiLog[n].ready
    /\ apiLog[n].status = 404

C10_WitnessStopped ==
  \E n \in 1..Len(apiLog) :
    /\ apiLog[n].complete
    /\ apiLog[n].sessionId \in handlers
    /\ ~apiLog[n].held
    /\ ~apiLog[n].ready
    /\ apiLog[n].status = 404

\* C11: a complete send-message request that names a session which is held
\* and Ready calls client.sendMessage exactly once and answers 200 when that
\* call succeeds and 500 when it throws; and 404 (the answer for a session
\* that is not found or not ready) is never given for a session that is held
\* and Ready.
C11_ReadySessionSends ==
  \A n \in 1..Len(apiLog) :
    LET e == apiLog[n]
    IN  /\ (e.complete /\ e.held /\ e.ready) =>
             /\ e.calls = 1
             /\ e.status = (IF e.ok THEN 200 ELSE 500)
        /\ e.status = 404 => (~e.held \/ ~e.ready)

\* a session that was started and is no longer held: stop-session has
\* run destroy() for it and forgotten it
Stopped(s) == s \in handlers /\ s \notin DOMAIN activeSessions

\* C12: once the stop of a session has returned, the handler of the session
\* is not ready and holds no client, whether client.destroy() succeeded or
\* threw.
C12_StoppedIsNotReady ==
  \A s \in SessionIds : Stopped(s) => (~isReady[s] /\ client[s] = "null")


\* ---------------------------------------------------------------------------
\* The 'disconnect' handler of a control connection
\* ---------------------------------------------------------------------------

\* the sessions of the manager that were started over control connection k
BoundTo(k) == {s \in DOMAIN activeSessions : activeSessions[s].socket = k}

\* the connection closes: its 'disconnect' handler starts to walk the map
SocketDisconnect(k) ==
  /\ sockets[k].phase = "connected"
  /\ sockets' = [sockets EXCEPT ![k].phase = "closing"]
  /\ UNCHANGED <<activeSessions, handlers, client, isReady, ended, now, ticks,
                 rateVars, ctxVars, pipeVars, apiLog>>

\* a handler that would keep the session whose teardown failed
CleanupStep_KeepsOnFailure(k, s, ok) ==
  /\ sockets[k].phase = "closing"
  /\ s \in BoundTo(k) \ sockets[k].visited
  /\ client' = [client EXCEPT ![s] = IF ok THEN "null" ELSE @]
  /\ isReady' = [isReady EXCEPT ![s] = IF ok /\ client[s] # "null" THEN FALSE ELSE @]
  /\ activeSessions' = IF ok THEN MapDelete(activeSessions, s) ELSE activeSessions
  /\ sockets' = [sockets EXCEPT ![k].visited = @ \cup {s}]
  /\ ended' = ended \cup {s}
  /\ tasks' = CutSleeps(s)
  /\ UNCHANGED <<handlers, now, ticks, rateVars, ctxVars, inbound, sent, db, stats,
                 faults, apiLog>>

\* one turn of the loop: the handler of a session bound to the connection is
\* destroyed (ok: whether client.destroy() succeeds; destroy() itself never
\* throws) and the session leaves the map
CleanupStep(k, s, ok) ==
  /\ sockets[k].phase = "closing"
  /\ s \in BoundTo(k) \ sockets[k].visited
  /\ client' = [client EXCEPT ![s] = IF ok THEN "null" ELSE @]
  /\ isReady' = [isReady EXCEPT ![s] = IF ok /\ client[s] # "null" THEN FALSE ELSE @]
  /\ activeSessions' = MapDelete(activeSessions, s)
  /\ sockets' = [sockets EXCEPT ![k].visited = @ \cup {s}]
  /\ ended' = ended \cup {s}
  /\ tasks' = CutSleeps(s)
  /\ UNCHANGED <<handlers, now, ticks, rateVars, ctxVars, inbound, sent, db, stats,
                 faults, apiLog>>

\* the loop has visited every entry of the connection: the handler returns
CleanupDone(k) ==
  /\ sockets[k].phase = "closing"
  /\ BoundTo(k) \subseteq sockets[k].visited
  /\ sockets' = [sockets EXCEPT ![k].phase = "closed"]
  /\ UNCHANGED <<activeSessions, handlers, client, isReady, ended, now, ticks,
                 rateVars, ctxVars, pipeVars, apiLog>>

NextManager ==
  \/ \E k \in AllSockets, s \in AllSessionIds : StartSession(k, s)
  \/ \E s \in AllSessionIds : OnReady(s)
  \/ \E k \in AllSockets, s \in AllSessionIds, ok \in BOOLEAN : StopSession(k, s, ok)
  \/ \E k \in AllSockets : SocketDisconnect(k)
  \/ \E k \in AllSockets, s \in AllSessionIds, ok \in BOOLEAN : CleanupStep(k, s, ok)
  \/ \E k \in AllSockets : CleanupDone(k)

SpecManager == Init /\ [][NextManager]_vars

\* a step of the 'disconnect' handling of connection k
CleanupOf(k) ==
  /\ sockets[k].phase = "closing"
  /\ sockets'[k] # sockets[k]

\* C13: once the 'disconnect' handling of a control connection has finished, no
\* session bound to that connection is left in activeSessions (sessions that
\* were still initializing and sessions whose teardown failed included), and a
\* step of that handling leaves every session bound to another connection in
\* the map with the same record, client and readiness.
C13_DisconnectSweepsOwnSessions ==
  /\ [](\A k \in AllSockets : sockets[k].phase = "closed" => BoundTo(k) = {})
  /\ [][\A k \in AllSockets : CleanupOf(k) =>
          \A s \in DOMAIN activeSessions :
            activeSessions[s].socket # k =>
              /\ s \in DOMAIN activeSessions'
              /\ activeSessions'[s] = activeSessions[s]
              /\ client'[s] = client[s]
              /\ isReady'[s] = isReady[s]]_vars

\* connection k1 is closed after sweeping s1, which was still initializing and
\* whose teardown failed, while s2 of the open connection k2 is still held
C13_Witness ==
  /\ sockets["k1"].phase = "closed"
  /\ "s1" \in sockets["k1"].visited
  /\ ~isReady["s1"] /\ client["s1"] = "live"
  /\ "s2" \in BoundTo("k2")
  /\ sockets["k2"].phase = "connected"


\* ---------------------------------------------------------------------------
\* The life of a session: transport events, stop, inbound messages, sends
\* ---------------------------------------------------------------------------

NextLife ==
  \/ \E k \in Sockets, s \in SessionIds : StartSession(k, s)
  \/ \E s \in SessionIds : OnReady(s)
  \/ \E s \in SessionIds : OnDisconnected(s)
  \/ \E s \in SessionIds : OnAuthFailure(s)
  \/ \E s \in SessionIds : InitFailed(s)
  \/ \E k \in Sockets, s \in SessionIds, ok \in BOOLEAN : StopSession(k, s, ok)
  \/ \E s \in SessionIds, kind \in InboundKinds :
       Room(MaxMessages) /\ Deliver(s, kind)
  \/ \E sessionId \in SessionIds \cup {UnknownSession}, complete \in BOOLEAN,
        ok \in BOOLEAN : ApiSendMessage(sessionId, complete, ok)

SpecLife == Init /\ [][NextLife]_vars

\* the invocations of handleIncomingMessage that a step starts for session s
\* and that pass its readiness test
Dispatched(s) ==
  {t \in (Len(tasks) + 1)..Len(tasks') :
     tasks'[t].session = s /\ tasks'[t].pc # "done"}

\* C14: once a session was disconnected (transport event or stop) or failed
\* (initialization error or authentication failure), no step makes or leaves
\* it Ready, dispatches an inbound message of it to the pipeline or sends a
\* message for it.
C14_EndedStaysEnded ==
  [][\A s \in ended :
       /\ ~isReady'[s]
       /\ Dispatched(s) = {}
       /\ \A n \in (Len(apiLog) + 1)..Len(apiLog') :
            apiLog'[n].sessionId = s => apiLog'[n].calls = 0]_vars


\* ---------------------------------------------------------------------------
\* The rate limiters of several sessions that the same senders write to
\* ---------------------------------------------------------------------------

NextRateAll ==
  \/ \E s \in AllSessionIds, phone \in Phones : Admit(s, phone)
  \/ \E d \in TickSteps : TickRate(d)

SpecRateAll == Init /\ [][NextRateAll]_vars

\* the positions of the admitted calls of a sender, whatever the session
AdmittedOf(phone) ==
  {i \in 1..Len(admitLog) : admitLog[i].phone = phone /\ ~admitLog[i].limited}

\* C15: a sender has one rate window for all sessions: of the calls made for
\* a sender on whatever session, no three that lie less than 60 seconds apart
\* are all admitted, and a window changes in an isRateLimited call only.
C15_OneWindowPerSender ==
  /\ \A phone \in Phones :
       \A i, j, k \in AdmittedOf(phone) :
         i < j /\ j < k => admitLog[k].at - admitLog[i].at >= RateWindowMs
  /\ \A i \in 1..Len(admitLog) :
       admitLog[i].before =
         (IF \E j \in 1..(i - 1) : admitLog[j].session = admitLog[i].session
          THEN LET j == CHOOSE j \in 1..(i - 1) :
                          /\ admitLog[j].session = admitLog[i].session
                          /\ \A l \in (j + 1)..(i - 1) :
                               admitLog[l].session # admitLog[i].session
               IN  admitLog[j].after
          ELSE EmptyMap)


\* C16: after every isRateLimited call, admitted or rejected, the stored
\* timestamps of the sender are in ascending order and none of them is older
\* than 60 seconds at the time of the call (the clock never goes back).
C16_WindowSortedAndFresh ==
  \A i \in 1..Len(admitLog) :
    LET e == admitLog[i]
        window == WindowOf(e.after, e.phone)
    IN  /\ \A m, n \in 1..Len(window) : m < n => window[m] <= window[n]
        /\ \A n \in 1..Len(window) : e.at - window[n] <= RateWindowMs

\* a call was rejected some time after the two admitted ones, and a later call
\* found timestamps older than 60 seconds in the window and was admitted
C16_Witness ==
  /\ \E i \in 1..Len(admitLog) :
       /\ admitLog[i].limited
       /\ \E n \in 1..Len(WindowOf(admitLog[i].after, admitLog[i].phone)) :
            WindowOf(admitLog[i].after, admitLog[i].phone)[n] < admitLog[i].at
  /\ \E i \in 1..Len(admitLog) :
       /\ ~admitLog[i].limited
       /\ \E n \in 1..Len(WindowOf(admitLog[i].before, admitLog[i].phone)) :
            admitLog[i].at - WindowOf(admitLog[i].before, admitLog[i].phone)[n]
              > RateWindowMs


\* ---------------------------------------------------------------------------
\* Messages that arrive while earlier ones are still being handled
\* ---------------------------------------------------------------------------

\* SpecOverlap: the messages of one sender at a session that stays Ready; the
\* transport emits the events of a message whenever it takes the message in,
\* and each listener invocation runs up to its next await
NextOverlap ==
  \/ \E k \in Sockets, s \in SessionIds : StartSession(k, s)
  \/ \E s \in SessionIds : OnReady(s)
  \/ \E s \in SessionIds, kind \in BurstKinds :
       Len(inbound) < MaxOverlap /\ Deliver(s, kind)
  \/ \E t \in 1..Len(tasks) :
       Step(t, BurstResults, {TRUE}, {"ok"}, TypingDelays)
  \/ \E s \in SessionIds : \E i \in 1..Len(sweepTimers[s]) : SweepPipe(s, i)
  \/ \E d \in PipeTickSteps : TickPipe(d)

SpecOverlap == Init /\ [][NextOverlap]_vars

\* invocation t passed the entry test of handleIncomingMessage
Started(t) == tasks[t].outcome # "Skipped"

\* the replies to one sender of one session are sent in the order of arrival
\* of the messages they answer
RepliesInArrivalOrder ==
  \A k1, k2 \in 1..Len(sent) :
    ( /\ k1 < k2
      /\ inbound[sent[k1].msg].session = inbound[sent[k2].msg].session
      /\ inbound[sent[k1].msg].phone = inbound[sent[k2].msg].phone )
    => sent[k1].msg <= sent[k2].msg

\* C17: within one session an invocation of the pipeline for a message has
\* started only when the invocations for every earlier message have returned,
\* and so the replies to one sender are sent in the order in which the
\* sender's messages arrived.
C17_PipelinesSerialized ==
  /\ \A t1, t2 \in 1..Len(tasks) :
       ( /\ tasks[t1].session = tasks[t2].session
         /\ tasks[t1].msg < tasks[t2].msg
         /\ Started(t1) /\ Started(t2) )
       => tasks[t1].pc = "done"
  /\ RepliesInArrivalOrder


\* the transport calls that a step makes for invocation t: presence calls
\* (sendStateTyping, clearState) and message.reply calls
TransportCalls(t) ==
  (tasks'[t].presence - tasks[t].presence)
    + Cardinality({n \in (Len(sent) + 1)..Len(sent') : sent'[n].task = t})

\* C18: an invocation whose session went Disconnected while its typing delay
\* was pending makes no transport call from then on: it neither clears nor
\* sets presence and it does not send the reply.
C18_NoCallsAfterDisconnect ==
  [][\A t \in 1..Len(tasks) : tasks[t].cut => TransportCalls(t) = 0]_vars


\* no timer of session s is due: every sweep that was scheduled up to now ran
NoSweepDue(s) == \A i \in 1..Len(sweepTimers[s]) : sweepTimers[s][i] > now

\* C19: the sweep recurs every 60 seconds whatever the traffic: once the
\* sweeps that are due have run, no entry is empty and no entry holds an
\* exchange that became 1 hour old a sweep period (60 s) ago or earlier, even
\* if updateContext is never called again.
C19_SweepRecurs ==
  \A s \in SessionIds :
    NoSweepDue(s) =>
      \A user \in DOMAIN conversationContext[s] :
        /\ conversationContext[s][user] # <<>>
        /\ \A n \in 1..Len(conversationContext[s][user]) :
             now - conversationContext[s][user][n].timestamp
               < ContextTtlMs + SweepDelayMs

\* C20: whatever the order in which updateContext calls and sweep callbacks
\* run, an exchange that is younger than 1 hour and among the 3 most recently
\* recorded of its key is in the entry of the key.
C20_NoRecordLost ==
  \A s \in SessionIds : \A userName \in DOMAIN recorded[s] :
    LET latest == LastN(recorded[s][userName], 3)
        entry == MapGet(conversationContext[s], userName, <<>>)
    IN  \A n \in 1..Len(latest) :
          now - latest[n].timestamp < ContextTtlMs
            => \E m \in 1..Len(entry) : entry[m] = latest[n]

\* a sweep took an expired exchange out of an entry and left a younger one of
\* the same entry, which was recorded before the sweep ran, in it
C20_Witness ==
  \E s \in SessionIds : \E userName \in DOMAIN conversationContext[s] :
    LET entry == conversationContext[s][userName]
    IN  /\ Len(entry) < Len(LastN(recorded[s][userName], 3))
        /\ \E m \in 1..Len(entry) :
             /\ entry[m].timestamp <= lastSweep[s]
             /\ now - entry[m].timestamp < ContextTtlMs


\* ---------------------------------------------------------------------------
\* Skipped events, failing collaborators and what a request carries
\* ---------------------------------------------------------------------------

\* the step ends invocation t as Skipped (at its entry or at the group test)
StepSkips(t) ==
  /\ tasks'[t].outcome = "Skipped"
  /\ t \in 1..Len(tasks) => tasks[t].pc # "done"

\* C21: the step in which an invocation is skipped (session not Ready, status
\* notification, group chat) changes no rate window, no row or counter of the
\* store, no conversation context and nothing that was sent, and a skipped
\* invocation never moves again and has made no store call, no generation
\* call, no presence call and no send.
C21_SkippedDoesNothing ==
  [][ /\ \A t \in 1..Len(tasks') :
           StepSkips(t) =>
             UNCHANGED <<messageQueue, db, stats, sent, conversationContext,
                         sweepTimers>>
      /\ \A t \in 1..Len(tasks) :
           tasks[t].outcome = "Skipped" =>
             /\ tasks'[t] = tasks[t]
             /\ tasks[t].genCalls = 0
             /\ tasks[t].dbCalls = 0
             /\ tasks[t].presence = 0
             /\ \A k \in 1..Len(sent') : sent'[k].task # t ]_vars

\* a group message that reached a Ready session was skipped after the chat
\* lookup
C21_Witness ==
  \E t \in 1..Len(tasks) :
    /\ tasks[t].outcome = "Skipped"
    /\ inbound[tasks[t].msg].isGroup
    /\ inbound[tasks[t].msg].ready
    /\ inbound[tasks[t].msg].type = "chat"

\* a chat message that reached a session that was not Ready was skipped
C21_WitnessNotReady ==
  \E t \in 1..Len(tasks) :
    /\ tasks[t].outcome = "Skipped"
    /\ ~inbound[tasks[t].msg].ready
    /\ inbound[tasks[t].msg].type = "chat"

\* a status notification that reached a Ready session was skipped
C21_WitnessNotification ==
  \E t \in 1..Len(tasks) :
    /\ tasks[t].outcome = "Skipped"
    /\ inbound[tasks[t].msg].ready
    /\ inbound[tasks[t].msg].type = "e2e_notification"


\* the step in which message.reply(aiResponse) of invocation t fails
ReplyFails(t) ==
  /\ tasks[t].pc = "reply"
  /\ "message.reply" \in tasks'[t].failedCalls

\* C22: when the send of the reply fails, the invocation is over at once with
\* outcome Failed: nothing is written to the store, the reply counter keeps
\* its value and no further send is made for the invocation.
C22_SendFailureEndsInvocation ==
  [][\A t \in 1..Len(tasks) :
       ReplyFails(t) =>
         /\ tasks'[t].pc = "done"
         /\ tasks'[t].outcome = "Failed"
         /\ sent' = sent
         /\ db' = db
         /\ stats' = stats]_vars


\* the calls of an invocation that go to the store
StoreCalls == {"saveInbound", "getChatHistory", "saveOutbound", "updateStatistics"}

\* the sends made for invocation t
SentBy(t) == {k \in 1..Len(sent) : sent[k].task = t}

\* C23: an invocation for an admitted message in which only store calls
\* failed (saving the inbound message, fetching the history, saving the
\* reply, updating a counter) has generated and sent its reply, once, when it
\* is over; and once its reply is sent it makes no further transport call.
C23_StoreFailureKeepsReply ==
  /\ [](\A t \in 1..Len(tasks) :
          ( /\ tasks[t].pc = "done"
            /\ tasks[t].outcome \notin {"Skipped", "Dropped"}
            /\ tasks[t].failedCalls # {}
            /\ tasks[t].failedCalls \subseteq StoreCalls )
          => /\ tasks[t].genCalls = 1
             /\ Cardinality(SentBy(t)) = 1
             /\ \A k \in SentBy(t) :
                  sent[k].kind = "reply" /\ sent[k].text = tasks[t].aiResponse)
  /\ [][\A t \in 1..Len(tasks) :
          (SentBy(t) # {} /\ tasks'[t].failedCalls \subseteq StoreCalls)
          => TransportCalls(t) = 0]_vars

\* an invocation whose saving of the inbound message failed has replied
C23_Witness ==
  \E t \in 1..Len(tasks) :
    /\ tasks[t].pc = "done"
    /\ tasks[t].failedCalls = {"saveInbound"}
    /\ tasks[t].outcome = "Replied"
    /\ SentBy(t) # {}

\* the same for the fetching of the history and for the saving of the reply
C23_WitnessHistory ==
  \E t \in 1..Len(tasks) :
    /\ tasks[t].pc = "done"
    /\ tasks[t].failedCalls = {"getChatHistory"}
    /\ SentBy(t) # {}

C23_WitnessOutbound ==
  \E t \in 1..Len(tasks) :
    /\ tasks[t].pc = "done"
    /\ tasks[t].failedCalls = {"saveOutbound"}
    /\ SentBy(t) # {}


\* SpecSeries: the messages of one sender that a Ready session takes in one
\* after the other, with collaborator calls that may fail
NextSeries ==
  \/ \E k \in Sockets, s \in SessionIds : StartSession(k, s)
  \/ \E s \in SessionIds : OnReady(s)
  \/ \E s \in SessionIds, kind \in BurstKinds :
       Room(MaxSeries) /\ Deliver(s, kind)
  \/ \E t \in 1..Len(tasks) :
       Step(t, PlainResults, BOOLEAN, DbOutcomes, {ShortestDelay})
  \/ \E t \in 1..Len(tasks), ok \in BOOLEAN : FallbackReplyAnswers(t, ok)
  \/ \E s \in SessionIds : \E i \in 1..Len(sweepTimers[s]) : SweepPipe(s, i)

SpecSeries == Init /\ [][NextSeries]_vars

\* the ways in which an invocation of handleIncomingMessage returns
Outcomes == {"Skipped", "Dropped", "Replied", "NoReply", "Failed"}

\* a collaborator call failed in an invocation for message i
FailedIn(i) == \E t \in TasksOf(i) : tasks[t].failedCalls # {}

C24_WitnessSend ==
  /\ Len(inbound) = 2
  /\ \E t \in TasksOf(1) : "message.reply" \in tasks[t].failedCalls
  /\ AllDone(2)
  /\ \A t \in TasksOf(2) : tasks[t].outcome \in {"Replied", "Dropped"}
  /\ isReady[inbound[2].session]


\* the step in which invocation t posts its request to the generator
PostsRequest(t) ==
  /\ tasks[t].pc = "history"
  /\ tasks'[t].pc = "generate"

\* C25: the previous conversation that a generation request carries is taken
\* from the conversationContext entry of the sender: it has at most 3 items
\* and each of them is the user text or the reply text of an exchange that
\* the entry holds when the request is made.
C25_RequestCarriesContextEntry ==
  [][\A t \in 1..Len(tasks) :
       PostsRequest(t) =>
         LET m == inbound[tasks[t].msg]
             entry == MapGet(conversationContext[tasks[t].session], m.name, <<>>)
             carried == tasks'[t].chatHistory
         IN  /\ Len(carried) <= ContextMax
             /\ \A n \in 1..Len(carried) :
                  \E e \in 1..Len(entry) :
                    carried[n].body \in {entry[e].user, entry[e].ai}]_vars


\* ---------------------------------------------------------------------------
\* Two senders with the same display name
\* ---------------------------------------------------------------------------

\* the chat messages of two contacts whose display name is the same
NamesakeKinds ==
  {[phone |-> "911", name |-> "Sam", body |-> BodyHello, type |-> "chat",
    isGroup |-> FALSE, fromMe |-> FALSE],
   [phone |-> "922", name |-> "Sam", body |-> BodyKyaHai, type |-> "chat",
    isGroup |-> FALSE, fromMe |-> FALSE]}

\* SpecNamesakes: a Ready session takes in messages of the two contacts one
\* after the other, with collaborators that do not fail
NextNamesakes ==
  \/ \E k \in Sockets, s \in SessionIds : StartSession(k, s)
  \/ \E s \in SessionIds : OnReady(s)
  \/ \E s \in SessionIds, kind \in NamesakeKinds :
       Room(MaxSeries) /\ Deliver(s, kind)
  \/ \E t \in 1..Len(tasks) :
       Step(t, BurstResults, {TRUE}, {"ok"}, {ShortestDelay})
  \/ \E s \in SessionIds : \E i \in 1..Len(sweepTimers[s]) : SweepPipe(s, i)

SpecNamesakes == Init /\ [][NextNamesakes]_vars

\* exchange was recorded by an invocation of session s for a message of phone
RecordedFor(s, phone, exchange) ==
  \E t \in 1..Len(tasks) :
    /\ tasks[t].session = s
    /\ inbound[tasks[t].msg].phone = phone
    /\ tasks[t].gen = "text"
    /\ inbound[tasks[t].msg].body = exchange.user
    /\ tasks[t].aiResponse = exchange.ai

\* C26: every entry of a conversation context belongs to one sender: the
\* exchanges it holds were all recorded for messages of one and the same
\* phone, also when two senders have the same display name.
C26_EntryOfOneSender ==
  \A s \in SessionIds : \A key \in DOMAIN conversationContext[s] :
    \E phone \in Phones :
      \A n \in 1..Len(conversationContext[s][key]) :
        RecordedFor(s, phone, conversationContext[s][key][n])


\* ---------------------------------------------------------------------------
\* One message, two listeners; the ids of the stored replies
\* ---------------------------------------------------------------------------

\* the invocations for message i that took a slot of the sender's window
AdmittedFor(i) == {t \in TasksOf(i) : tasks[t].dbCalls > 0}

\* C27: a message that the transport delivers starts at most one invocation
\* of the pipeline, takes at most one slot of its sender's rate window, causes
\* at most one generation call and is sent at most one reply.
C27_OneInvocationPerMessage ==
  \A i \in 1..Len(inbound) :
    /\ Cardinality({t \in TasksOf(i) : Started(t)}) <= 1
    /\ Cardinality(AdmittedFor(i)) <= 1
    /\ Cardinality({t \in TasksOf(i) : tasks[t].genCalls > 0}) <= 1
    /\ Cardinality({k \in SentFor(i) : sent[k].kind = "reply"}) <= 1

\* the invocations whose reply was sent and whose saveMessage call for it
\* went through
Persisted == {t \in 1..Len(tasks) :
                /\ tasks[t].outcome = "Replied"
                /\ "saveOutbound" \notin tasks[t].failedCalls}

\* C28: the replies that were sent and stored have ids of their own: no two
\* invocations stored their reply under the same id, and the store holds as
\* many rows of replies as replies were stored.
C28_ReplyRowsAreDistinct ==
  /\ \A t1, t2 \in Persisted : t1 # t2 => tasks[t1].botId # tasks[t2].botId
  /\ Cardinality({id \in DOMAIN db : db[id].is_bot}) = Cardinality(Persisted)

\* the same for the updating of a counter
C23_WitnessCounter ==
  \E t \in 1..Len(tasks) :
    /\ tasks[t].pc = "done"
    /\ tasks[t].failedCalls = {"updateStatistics"}
    /\ SentBy(t) # {}

====
